---- MODULE Spec2Model ----
(***************************************************************************)
(* A model of fund_trend_lab's detection engine                            *)
(* (backend/services/backtester.py) over the timeseries_daily table of     *)
(* backend/database.py.                                                    *)
(*                                                                         *)
(* Numbers.  Prices are positive integers (a net value in its smallest     *)
(* unit).  Every percentage the code computes in floating point is kept    *)
(* here as an exact rational and compared by cross-multiplication; the     *)
(* values the code rounds (round(x, 2), round(x, 3)) are integers counted  *)
(* in hundredths or thousandths, rounded half-to-even like Python's round. *)
(* Thresholds: max_drawdown_tolerance in percent, min_gain and min_slope   *)
(* in hundredths of a percent (10.0 is 1000, 0.3 is 30).                   *)
(*                                                                         *)
(* Dates are day numbers 1..MaxDate; their order is the order of the ISO   *)
(* date strings the table stores.                                          *)
(***************************************************************************)
EXTENDS Integers, Sequences, FiniteSets, TLC

\* Number of calendar dates a series may hold a sample for.
MaxDate == 4

\* Number of scan_all_funds runs on one SurgeBacktester instance.
MaxScans == 2

\* Prices of the default specification: a 20% rise, a one-unit step on top
\* of it, and the falls between them (16.7% and 0.0002%).
Values == {400000, 480000, 480001}

\* Prices of the phase-detector specification: the spec's Scenario B values.
PhaseValues == {100, 104, 110, 120}

\* Number of samples a series of the indicator specification may hold.
MaxSamples == 6

\* Prices of the target series of the indicator specification: a 4% step,
\* a 40% step and a 34.6% step, with the falls between them.
FundValues == {25, 26, 35}

\* IndicatorService.index_code  (indicators.py line 15)
index_code == "000300"

Codes == {"F1", "F2", index_code}

\* The dates the detector specifications store samples on
Dates == 1..MaxDate

\* The dates of the table
TableDates == 1..(IF MaxSamples > MaxDate THEN MaxSamples ELSE MaxDate)

\* A (code, date) pair with no row in timeseries_daily.
Absent == 0

VARIABLES
    timeseries,   \* timeseries_daily: code -> date -> value (Absent: no row)
    all_events,   \* SurgeBacktester.all_events
    detector,     \* SurgeBacktester.detector: the SurgeDetector's configuration
    scans,        \* scan_all_funds runs so far on the backtester instance
    ret,          \* the last operation and what it returned
    previous,     \* what the last call started from, where a property
                  \* compares with it: for a detector call that repeats the
                  \* one before it, what that one returned and the series;
                  \* for save_to_database, the rows of surge_events
    surge_events, \* the rows of the surge_events table
    instrument,   \* the codes of the instrument table
    sync_state,   \* sync_state: code -> its row
    syncing,      \* SyncService.syncing
    calls         \* the sync_single calls: each call's code and position

\* What the detectors, the backtester and the indicator service leave alone
service == <<instrument, sync_state, syncing, calls>>

vars ==
    <<timeseries, all_events, detector, scans, ret, previous, surge_events,
      instrument, sync_state, syncing, calls>>

----------------------------------------------------------------------------
\* Arithmetic

Abs(x) == IF x < 0 THEN -x ELSE x

\* prices[i] of a 0-based Python index
At(s, i) == s[i + 1]

\* s[a:b] of Python (0-based, b excluded)
Slice(s, a, b) == SubSeq(s, a + 1, b)

RECURSIVE LongDiv(_, _, _, _)
\* q and r with (q + r/d) = (q0 + r0/d) * 10^k, r < d: k digits of long division
LongDiv(q, r, d, k) ==
    IF k = 0 THEN [q |-> q, r |-> r]
    ELSE LongDiv(q * 10 + ((r * 10) \div d), (r * 10) % d, d, k - 1)

\* round(a / d, digits) of a >= 0, d > 0, counted in units of 10^-digits:
\* to the nearest unit, a tie to the even one.
RoundPos(a, d, digits) ==
    LET qr == LongDiv(a \div d, a % d, d, digits)
    IN  IF 2 * qr.r < d THEN qr.q
        ELSE IF 2 * qr.r > d THEN qr.q + 1
        ELSE IF qr.q % 2 = 0 THEN qr.q ELSE qr.q + 1

\* round(a / d, digits) for any sign of a (d > 0)
Round(a, d, digits) ==
    IF a >= 0 THEN RoundPos(a, d, digits) ELSE -RoundPos(-a, d, digits)

RECURSIVE PosGT(_, _, _, _)
\* a/b > c/d for positive a, b, c, d, by Euclid's algorithm on the two
\* fractions (no product is formed, so no width is exceeded)
PosGT(a, b, c, d) ==
    IF a \div b # c \div d THEN a \div b > c \div d
    ELSE IF a % b = 0 THEN FALSE
    ELSE IF c % d = 0 THEN TRUE
    ELSE PosGT(d, c % d, b, a % b)

\* a/b > c/d for b > 0, d > 0 and any sign of a and c
FracGT(a, b, c, d) ==
    IF c < 0 THEN (a >= 0 \/ PosGT(-c, d, -a, b))
    ELSE (a > 0 /\ (c = 0 \/ PosGT(a, b, c, d)))

\* a/b >= c/d
FracGE(a, b, c, d) == ~FracGT(c, d, a, b)

----------------------------------------------------------------------------
\* database.py

RECURSIVE RowsFrom(_, _)
RowsFrom(table, d) ==
    IF d \notin TableDates THEN <<>>
    ELSE IF table[d] = Absent THEN RowsFrom(table, d + 1)
    ELSE <<[date |-> d, value |-> table[d]]>> \o RowsFrom(table, d + 1)

\* SELECT * FROM timeseries_daily WHERE code = ? ORDER BY date ASC
get_timeseries(db, code) == RowsFrom(db[code], 1)

PricesOf(data) == [k \in 1..Len(data) |-> data[k].value]

DatesOf(data) == [k \in 1..Len(data) |-> data[k].date]

----------------------------------------------------------------------------
\* The slope analyzers (scipy.stats.linregress on x = 0..n-1)

RECURSIVE SumK(_, _)
\* sum of k * ys[k] over the 0-based indices k >= i
SumK(ys, i) == IF i >= Len(ys) THEN 0 ELSE i * At(ys, i) + SumK(ys, i + 1)

RECURSIVE Sum(_, _)
Sum(ys, i) == IF i >= Len(ys) THEN 0 ELSE At(ys, i) + Sum(ys, i + 1)

RECURSIVE SumIdx(_, _)
\* 0^e + 1^e + ... + (n-1)^e for e in {1, 2}
SumIdx(n, e) ==
    IF n = 0 THEN 0
    ELSE (IF e = 1 THEN n - 1 ELSE (n - 1) * (n - 1)) + SumIdx(n - 1, e)

NaN == [k |-> "nan", n |-> 0, d |-> 1]

Rat(n, d) == [k |-> "num", n |-> n, d |-> d]

Inf == [k |-> "inf", n |-> 1, d |-> 1]

\* stats.linregress(np.arange(len(ys)), ys / scale).slope: the covariance
\* of x and y over the variance of x; both are 0 for a single point, and
\* 0/0 is nan.  (An empty input raises: see the callers.)
linregress(ys, scale) ==
    LET n == Len(ys)
        cov == n * SumK(ys, 0) - SumIdx(n, 1) * Sum(ys, 0)
        var == n * SumIdx(n, 2) - SumIdx(n, 1) * SumIdx(n, 1)
    IN  IF var = 0 THEN NaN ELSE Rat(cov, var * scale)

\* x > c/100 for a slope x; a comparison with nan is False
GreaterThan(x, c) == x.k = "num" /\ FracGT(x.n, x.d, c, 100)

\* slope2 / slope1 of two slopes over the same scale, slope1 > 0
Quotient(slope2, slope1, scale) ==
    Rat(slope2.n * (slope1.d \div scale), (slope2.d \div scale) * slope1.n)

Slopes(status, slope1, slope2, acceleration) ==
    [status |-> status, slope1 |-> slope1, slope2 |-> slope2,
     acceleration |-> acceleration]

\* _calculate_segment_slopes whose second half is measured against its
\* own first price, (price[k] / price[mid] - 1) * 100
_calculate_segment_slopes_Rebased(prices) ==
    LET n == Len(prices)
        mid == n \div 2
        p0 == At(prices, 0)
        pmid == At(prices, mid)
        y == [k \in 1..n |-> 100 * (prices[k] - p0)]
        y1 == Slice(y, 0, mid)
        y2 == [k \in 1..(n - mid) |-> 100 * (prices[mid + k] - pmid)]
        slope1 == linregress(y1, p0)
        slope2 == linregress(y2, pmid)
        acceleration ==
            IF GreaterThan(slope1, 1)
            THEN Rat(slope2.n * slope1.d, slope2.d * slope1.n)
            ELSE IF GreaterThan(slope2, 0) THEN Inf ELSE Rat(0, 1)
    IN  IF n < 4 THEN Slopes("ok", Rat(0, 1), Rat(0, 1), Rat(1, 1))
        ELSE Slopes("ok", slope1, slope2, acceleration)

\* UptrendPhaseDetector._calculate_segment_slopes.  y holds the numerators
\* of (prices / prices[0] - 1) * 100 over prices[0].
_calculate_segment_slopes(prices) ==
    LET n == Len(prices)
        mid == n \div 2
        p0 == At(prices, 0)
        y == [k \in 1..n |-> 100 * (prices[k] - p0)]
        y1 == Slice(y, 0, mid)
        y2 == [k \in 1..(n - mid) |-> y[mid + k] - At(y, mid)]
        slope1 == linregress(y1, p0)
        slope2 == linregress(y2, p0)
        acceleration ==
            IF GreaterThan(slope1, 1) THEN Quotient(slope2, slope1, p0)
            ELSE IF GreaterThan(slope2, 0) THEN Inf ELSE Rat(0, 1)
    IN  IF n < 4 THEN Slopes("ok", Rat(0, 1), Rat(0, 1), Rat(1, 1))
        ELSE Slopes("ok", slope1, slope2, acceleration)

\* SurgeDetector.calculate_segment_slopes: the same body without the
\* n < 4 return; linregress raises ValueError on the empty first half
\* of a single price.
calculate_segment_slopes(prices) ==
    LET n == Len(prices)
        mid == n \div 2
        p0 == At(prices, 0)
        y == [k \in 1..n |-> 100 * (prices[k] - p0)]
        y1 == Slice(y, 0, mid)
        y2 == [k \in 1..(n - mid) |-> y[mid + k] - At(y, mid)]
        slope1 == linregress(y1, p0)
        slope2 == linregress(y2, p0)
        acceleration ==
            IF GreaterThan(slope1, 1) THEN Quotient(slope2, slope1, p0)
            ELSE IF GreaterThan(slope2, 0) THEN Inf ELSE Rat(0, 1)
    IN  IF mid = 0 THEN Slopes("raised", NaN, NaN, NaN)
        ELSE Slopes("ok", slope1, slope2, acceleration)

\* round(x, digits) of a rational or nan or inf
RoundNum(x, digits) ==
    IF x.k = "num" THEN [k |-> "num", v |-> Round(x.n, x.d, digits)]
    ELSE [k |-> x.k, v |-> 0]

\* acceleration > threshold (threshold in hundredths); inf exceeds it,
\* nan does not
AccelerationAbove(acc, threshold) ==
    acc.k = "inf" \/ (acc.k = "num" /\ FracGT(acc.n, acc.d, threshold, 100))

----------------------------------------------------------------------------
\* UptrendPhaseDetector

\* The detector's thresholds (lines 58-64)
PhaseDetector(tol, gain, duration) ==
    [max_drawdown_tolerance |-> tol, min_gain |-> gain,
     min_duration |-> duration]

\* DrawdownExceeds without the "* 100": the fraction lost, not the percentage,
\* is compared with the tolerance
DrawdownExceeds_Fraction(peak, price, tolerance) ==
    FracGT(peak - price, peak, tolerance, 1)

\* The whole-number tolerances t up to 30 for which the double
\* (t / 100) * 100 is greater than t (it is 7.000000000000001 for 7).  A
\* drawdown of exactly t percent is computed as that double: peak - price
\* is exact, the quotient is t / 100 rounded, and the product is rounded
\* again.  Any other drawdown of whole-number prices differs from t by
\* more than the rounding error, so it compares as the exact fraction does.
RoundsAbove(tolerance) == tolerance \in {7, 14, 28}

\* DrawdownExceeds that also holds at a drawdown equal to the tolerance
DrawdownExceeds_OrEqual(peak, price, tolerance) ==
    FracGE((peak - price) * 100, peak, tolerance, 1)

\* (peak - price) / peak * 100 > tolerance  (lines 101-104, 173-174), in
\* double arithmetic
DrawdownExceeds(peak, price, tolerance) ==
    \/ FracGT((peak - price) * 100, peak, tolerance, 1)
    \/ (peak - price) * 100 = tolerance * peak /\ RoundsAbove(tolerance)

RECURSIVE ForwardScan_ToEnd(_, _, _, _, _)
\* ForwardScan that does not stop at a sample beyond the tolerance
ForwardScan_ToEnd(self, prices, j, running_peak, running_peak_idx) ==
    IF j >= Len(prices)
    THEN [j |-> j, running_peak_idx |-> running_peak_idx]
    ELSE LET current_price == At(prices, j)
             higher == current_price > running_peak
         IN  ForwardScan_ToEnd(self, prices, j + 1,
                 IF higher THEN current_price ELSE running_peak,
                 IF higher THEN j ELSE running_peak_idx)

RECURSIVE ForwardScan(_, _, _, _, _)
\* The inner while loop (lines 92-107) from cursor j: where it stops, and
\* the index of the running peak then.
ForwardScan(self, prices, j, running_peak, running_peak_idx) ==
    IF j >= Len(prices)
    THEN [j |-> j, running_peak_idx |-> running_peak_idx]
    ELSE LET current_price == At(prices, j)
             higher == current_price > running_peak
             peak == IF higher THEN current_price ELSE running_peak
             peak_idx == IF higher THEN j ELSE running_peak_idx
         IN  IF DrawdownExceeds(peak, current_price,
                                self.max_drawdown_tolerance)
             THEN [j |-> j, running_peak_idx |-> peak_idx]
             ELSE ForwardScan(self, prices, j + 1, peak, peak_idx)

RECURSIVE ValidEndLoop_AnyDip(_, _, _, _, _)
\* ValidEndLoop that returns the peak at the first sample below it
ValidEndLoop_AnyDip(self, prices, i, peak, peak_idx) ==
    IF i >= Len(prices) THEN Len(prices) - 1
    ELSE IF At(prices, i) > peak
         THEN ValidEndLoop_AnyDip(self, prices, i + 1, At(prices, i), i)
         ELSE IF At(prices, i) < peak
              THEN peak_idx
              ELSE ValidEndLoop_AnyDip(self, prices, i + 1, peak, peak_idx)

RECURSIVE ValidEndLoop(_, _, _, _, _)
\* The for loop of _find_valid_phase_end (lines 166-178)
ValidEndLoop(self, prices, i, peak, peak_idx) ==
    IF i >= Len(prices) THEN Len(prices) - 1
    ELSE IF At(prices, i) > peak
         THEN ValidEndLoop(self, prices, i + 1, At(prices, i), i)
         ELSE IF DrawdownExceeds(peak, At(prices, i),
                                 self.max_drawdown_tolerance)
              THEN peak_idx
              ELSE ValidEndLoop(self, prices, i + 1, peak, peak_idx)

_find_valid_phase_end(self, prices) ==
    IF Len(prices) < 2 THEN 0
    ELSE ValidEndLoop(self, prices, 1, At(prices, 0), 0)

RECURSIVE MaxDrawdownLoop(_, _, _, _)
\* The for loop of _calculate_max_drawdown (lines 188-195); max_dd is the
\* fraction of the peak lost, kept as the pair (loss, peak).
MaxDrawdownLoop(prices, i, peak, max_dd) ==
    IF i >= Len(prices) THEN max_dd
    ELSE LET price == At(prices, i)
             pk == IF price > peak THEN price ELSE peak
         IN  MaxDrawdownLoop(prices, i + 1, pk,
                 IF FracGT(pk - price, pk, max_dd.n, max_dd.d)
                 THEN Rat(pk - price, pk) ELSE max_dd)

\* max over the prices of (peak - price) / peak, times 100 when rounded
_calculate_max_drawdown(prices) ==
    IF Len(prices) < 2 THEN Rat(0, 1)
    ELSE MaxDrawdownLoop(prices, 0, At(prices, 0), Rat(0, 1))

\* PhaseAccepted that requires more steps than min_duration
PhaseAccepted_Longer(self, prices, phase_start, actual_end) ==
    /\ FracGE(100 * (At(prices, actual_end) - At(prices, phase_start)),
              At(prices, phase_start), self.min_gain, 100)
    /\ actual_end - phase_start > self.min_duration

\* PhaseAccepted with the duration counted in samples, not in steps
PhaseAccepted_Samples(self, prices, phase_start, actual_end) ==
    /\ FracGE(100 * (At(prices, actual_end) - At(prices, phase_start)),
              At(prices, phase_start), self.min_gain, 100)
    /\ actual_end - phase_start + 1 >= self.min_duration

\* total_gain >= self.min_gain and duration >= self.min_duration (line 127),
\* on the unrounded gain (prices[actual_end] - start) / start * 100
PhaseAccepted(self, prices, phase_start, actual_end) ==
    /\ FracGE(100 * (At(prices, actual_end) - At(prices, phase_start)),
              At(prices, phase_start), self.min_gain, 100)
    /\ actual_end - phase_start >= self.min_duration

\* MakePhase whose gains are taken relative to the end price
MakePhase_EndBase(code, prices, dates, phase_start, actual_end) ==
    LET actual_prices == Slice(prices, phase_start, actual_end + 1)
        start_price == At(prices, phase_start)
        end_price == At(prices, actual_end)
        gain == At(prices, actual_end) - start_price
        duration == actual_end - phase_start
        max_dd == _calculate_max_drawdown(actual_prices)
        slopes == _calculate_segment_slopes(actual_prices)
    IN  [code |-> code,
         start_date |-> At(dates, phase_start),
         end_date |-> At(dates, actual_end),
         start_idx |-> phase_start,
         end_idx |-> actual_end,
         duration_days |-> duration,
         total_gain |-> Round(gain, end_price, 4),
         max_drawdown |-> Round(max_dd.n, max_dd.d, 4),
         avg_daily_gain |-> Round(gain, end_price * duration, 5),
         peak_date |-> At(dates, actual_end),
         peak_gain |-> Round(gain, end_price, 4),
         slope_first |-> RoundNum(slopes.slope1, 3),
         slope_second |-> RoundNum(slopes.slope2, 3),
         is_accelerating |-> AccelerationAbove(slopes.acceleration, 130)]

\* The UptrendPhase of lines 134-150 (name is carried through unchanged and
\* left out); total_gain, max_drawdown and peak_gain in hundredths,
\* avg_daily_gain and the slopes in thousandths.
MakePhase(code, prices, dates, phase_start, actual_end) ==
    LET actual_prices == Slice(prices, phase_start, actual_end + 1)
        start_price == At(prices, phase_start)
        gain == At(prices, actual_end) - start_price
        duration == actual_end - phase_start
        max_dd == _calculate_max_drawdown(actual_prices)
        slopes == _calculate_segment_slopes(actual_prices)
    IN  [code |-> code,
         start_date |-> At(dates, phase_start),
         end_date |-> At(dates, actual_end),
         start_idx |-> phase_start,
         end_idx |-> actual_end,
         duration_days |-> duration,
         total_gain |-> Round(gain, start_price, 4),
         max_drawdown |-> Round(max_dd.n, max_dd.d, 4),
         avg_daily_gain |-> Round(gain, start_price * duration, 5),
         peak_date |-> At(dates, actual_end),
         peak_gain |-> Round(gain, start_price, 4),
         slope_first |-> RoundNum(slopes.slope1, 3),
         slope_second |-> RoundNum(slopes.slope2, 3),
         is_accelerating |-> AccelerationAbove(slopes.acceleration, 130)]

\* NextCursor that restarts at the peak the candidate ended at
NextCursor_AtPeak(j, phase_end) == phase_end

\* i = max(j, phase_end + 1)  (line 153)
NextCursor(j, phase_end) == IF j > phase_end + 1 THEN j ELSE phase_end + 1

\* phase_end = running_peak_idx  (line 110)
PhaseEnd(scan) == scan.running_peak_idx

\* The phase, if any, of the candidate that starts at i and whose forward
\* scan ended as `scan` (lines 110-150): a sequence of zero or one phases.
Candidate(self, code, prices, dates, i, scan) ==
    LET phase_start == i
        phase_end == PhaseEnd(scan)
        phase_prices == Slice(prices, phase_start, phase_end + 1)
        valid_end == _find_valid_phase_end(self, phase_prices)
        actual_end == phase_start + valid_end
    IN  IF /\ phase_end > phase_start
           /\ actual_end > phase_start
           /\ PhaseAccepted(self, prices, phase_start, actual_end)
        THEN <<MakePhase(code, prices, dates, phase_start, actual_end)>>
        ELSE <<>>

RECURSIVE DetectLoop_StepOne(_, _, _, _, _, _)
\* DetectLoop that moves the cursor on by one after a candidate instead of
\* past the region the candidate consumed
DetectLoop_StepOne(self, code, prices, dates, i, phases) ==
    IF i >= Len(prices) - 1 THEN phases
    ELSE IF At(prices, i + 1) <= At(prices, i)
         THEN DetectLoop_StepOne(self, code, prices, dates, i + 1, phases)
         ELSE LET scan == ForwardScan(self, prices, i + 1, At(prices, i), i)
              IN  DetectLoop_StepOne(self, code, prices, dates, i + 1,
                      phases \o Candidate(self, code, prices, dates, i, scan))

RECURSIVE DetectLoop(_, _, _, _, _, _)
\* The outer while loop (lines 79-153) from cursor i
DetectLoop(self, code, prices, dates, i, phases) ==
    IF i >= Len(prices) - 1 THEN phases
    ELSE IF At(prices, i + 1) <= At(prices, i)
         THEN DetectLoop(self, code, prices, dates, i + 1, phases)
         ELSE LET scan == ForwardScan(self, prices, i + 1, At(prices, i), i)
              IN  DetectLoop(self, code, prices, dates,
                      NextCursor(scan.j, PhaseEnd(scan)),
                      phases \o Candidate(self, code, prices, dates, i, scan))

RECURSIVE CursorTrace(_, _, _)
\* The iterations of the outer while loop (lines 79-153) from cursor i: for
\* each, the cursor, whether it is an ascent start, where the forward scan
\* stopped and the peak it ended at, and the cursor it moves to
CursorTrace(self, prices, i) ==
    IF i >= Len(prices) - 1 THEN <<>>
    ELSE IF At(prices, i + 1) <= At(prices, i)
         THEN << [i |-> i, ascent |-> FALSE, j |-> i, phase_end |-> i,
                  next |-> i + 1] >>
              \o CursorTrace(self, prices, i + 1)
         ELSE LET scan == ForwardScan(self, prices, i + 1, At(prices, i), i)
                  next == NextCursor(scan.j, PhaseEnd(scan))
              IN  << [i |-> i, ascent |-> TRUE, j |-> scan.j,
                      phase_end |-> PhaseEnd(scan), next |-> next] >>
                  \o (IF next > i THEN CursorTrace(self, prices, next)
                      ELSE <<>>)

\* if not data or len(data) < self.min_duration: return []  (line 70)
PhaseTooShort(self, data) == Len(data) = 0 \/ Len(data) < self.min_duration

\* UptrendPhaseDetector.detect_phases on the stored series of `code`
detect_phases(self, db, code) ==
    LET data == get_timeseries(db, code)
    IN  IF PhaseTooShort(self, data) THEN <<>>
        ELSE DetectLoop(self, code, PricesOf(data), DatesOf(data), 0, <<>>)

----------------------------------------------------------------------------
\* detect_uptrend of the scan scripts (scripts/full_market_scan.py)

RECURSIVE UptrendScan(_, _, _, _, _)
\* The inner while loop of detect_uptrend (lines 69-79) from cursor j
UptrendScan(prices, max_dd, j, running_peak, running_peak_idx) ==
    IF j >= Len(prices)
    THEN [j |-> j, running_peak_idx |-> running_peak_idx]
    ELSE LET current_price == At(prices, j)
             peak == IF current_price > running_peak
                     THEN current_price ELSE running_peak
             peak_idx == IF current_price > running_peak
                         THEN j ELSE running_peak_idx
         IN  IF DrawdownExceeds(peak, current_price, max_dd)
             THEN [j |-> j, running_peak_idx |-> peak_idx]
             ELSE UptrendScan(prices, max_dd, j + 1, peak, peak_idx)

\* The phase detect_uptrend appends for the candidate from phase_start to
\* phase_end (lines 83-110), or nothing; the slopes are left out.
UptrendCandidate(prices, dates, min_gain, min_dur, phase_start, phase_end) ==
    LET start_price == At(prices, phase_start)
        gain == At(prices, phase_end) - start_price
        duration == phase_end - phase_start
    IN  IF /\ phase_end > phase_start
           /\ FracGE(100 * gain, start_price, min_gain, 100)
           /\ duration >= min_dur
        THEN << [start_date |-> At(dates, phase_start),
                 end_date |-> At(dates, phase_end),
                 duration |-> duration,
                 total_gain |-> Round(gain, start_price, 4)] >>
        ELSE <<>>

RECURSIVE UptrendLoop(_, _, _, _, _, _, _)
\* The outer while loop of detect_uptrend (lines 59-112) from cursor i
UptrendLoop(prices, dates, max_dd, min_gain, min_dur, i, phases) ==
    IF i >= Len(prices) - 1 THEN phases
    ELSE IF At(prices, i + 1) <= At(prices, i)
         THEN UptrendLoop(prices, dates, max_dd, min_gain, min_dur, i + 1,
                          phases)
         ELSE LET scan == UptrendScan(prices, max_dd, i + 1, At(prices, i), i)
                  phase_end == scan.running_peak_idx
              IN  UptrendLoop(prices, dates, max_dd, min_gain, min_dur,
                      IF scan.j > phase_end + 1 THEN scan.j
                      ELSE phase_end + 1,
                      phases \o UptrendCandidate(prices, dates, min_gain,
                                     min_dur, i, phase_end))

\* detect_uptrend(prices, dates, max_dd, min_gain, min_dur)  (lines 50-114)
detect_uptrend(prices, dates, max_dd, min_gain, min_dur) ==
    IF Len(prices) < min_dur THEN <<>>
    ELSE UptrendLoop(prices, dates, max_dd, min_gain, min_dur, 0, <<>>)

----------------------------------------------------------------------------
\* SurgeDetector

\* The detector's configuration (lines 230-238): windows a list of window
\* lengths, acceleration_threshold in hundredths
SurgeDetector(windows, gain, slope, threshold) ==
    [windows |-> windows, min_gain |-> gain, min_slope |-> slope,
     acceleration_threshold |-> threshold]

\* SurgeCondition without the test of the second-half slope
SurgeCondition_NoSlope(self, prices, slope2) ==
    LET n == Len(prices)
        p0 == At(prices, 0)
        gain == At(prices, n - 1) - p0
    IN  /\ FracGE(100 * gain, p0, self.min_gain, 100)
        /\ FracGE(100 * gain, p0 * n, self.min_slope, 100)

\* SurgeCondition that also takes a flat second half (slope2 >= 0)
SurgeCondition_FlatToo(self, prices, slope2) ==
    LET n == Len(prices)
        p0 == At(prices, 0)
        gain == At(prices, n - 1) - p0
    IN  /\ FracGE(100 * gain, p0, self.min_gain, 100)
        /\ FracGE(100 * gain, p0 * n, self.min_slope, 100)
        /\ slope2.k = "num" /\ ~FracGT(0, 1, slope2.n, slope2.d)

\* The surge condition of lines 291-295 on the unrounded values:
\* total_gain = (prices[-1] / prices[0] - 1) * 100 >= min_gain,
\* avg_slope = total_gain / len(prices) >= min_slope, slope2 > 0
SurgeCondition(self, prices, slope2) ==
    LET n == Len(prices)
        p0 == At(prices, 0)
        gain == At(prices, n - 1) - p0
    IN  /\ FracGE(100 * gain, p0, self.min_gain, 100)
        /\ FracGE(100 * gain, p0 * n, self.min_slope, 100)
        /\ GreaterThan(slope2, 0)

\* SurgeDetector.is_surge: (is_surge, details), or the analyzer's exception
is_surge(self, prices) ==
    LET n == Len(prices)
        p0 == At(prices, 0)
        gain == At(prices, n - 1) - p0
        slopes == calculate_segment_slopes(prices)
    IN  IF slopes.status = "raised"
        THEN [status |-> "raised", is_surge |-> FALSE,
              details |-> [total_gain |-> 0]]
        ELSE [status |-> "ok",
              is_surge |-> SurgeCondition(self, prices, slopes.slope2),
              details |->
                [total_gain |-> Round(gain, p0, 4),
                 slope_first |-> RoundNum(slopes.slope1, 3),
                 slope_second |-> RoundNum(slopes.slope2, 3),
                 acceleration |-> RoundNum(slopes.acceleration, 2),
                 avg_slope |-> Round(gain, p0 * n, 5),
                 is_accelerating |->
                    AccelerationAbove(slopes.acceleration,
                                      self.acceleration_threshold)]]

\* range_key = f"{start_date}_{end_date}"  (line 325): the two fixed-width
\* date strings joined, which is the pair
RangeKey(start_date, end_date) == <<start_date, end_date>>

\* MakeEvent whose window starts one sample late: window samples, not
\* window + 1
MakeEvent_ShortWindow(code, dates, window, i, details) ==
    [code |-> code,
     start_date |-> At(dates, i - window + 1),
     end_date |-> At(dates, i),
     window |-> window,
     total_gain |-> details.total_gain,
     slope_first |-> details.slope_first,
     slope_second |-> details.slope_second,
     acceleration |-> details.acceleration,
     is_accelerating |-> details.is_accelerating]

\* The SurgeEvent of lines 330-341 (name is carried through unchanged and
\* left out)
MakeEvent(code, dates, window, i, details) ==
    [code |-> code,
     start_date |-> At(dates, i - window),
     end_date |-> At(dates, i),
     window |-> window,
     total_gain |-> details.total_gain,
     slope_first |-> details.slope_first,
     slope_second |-> details.slope_second,
     acceleration |-> details.acceleration,
     is_accelerating |-> details.is_accelerating]

\* IsNewRange that never finds the range among those detected
IsNewRange_Always(detected_ranges, range_key) == TRUE

\* IsNewRange with detected_ranges kept on the detector from one call to
\* the next
IsNewRange_Remembered(detected_ranges, range_key) ==
    /\ range_key \notin detected_ranges
    /\ ~(/\ ret.op = "scan_fund"
         /\ \E n \in 1..Len(ret.value) :
               RangeKey(ret.value[n].start_date, ret.value[n].end_date)
                   = range_key)

\* Whether a surge at this range is appended (lines 326-328)
IsNewRange(detected_ranges, range_key) == range_key \notin detected_ranges

RECURSIVE ScanWindow(_, _, _, _, _, _, _)
\* for i in range(window, len(prices))  (lines 316-341), from index i;
\* acc carries events, detected_ranges and whether is_surge has raised
ScanWindow(self, code, prices, dates, window, i, acc) ==
    IF i >= Len(prices) \/ acc.status = "raised" THEN acc
    ELSE LET window_prices == Slice(prices, i - window, i + 1)
             res == is_surge(self, window_prices)
             range_key == RangeKey(At(dates, i - window), At(dates, i))
         IN  IF res.status = "raised"
             THEN [acc EXCEPT !.status = "raised"]
             ELSE IF res.is_surge /\ IsNewRange(acc.detected_ranges, range_key)
             THEN ScanWindow(self, code, prices, dates, window, i + 1,
                    [acc EXCEPT
                       !.detected_ranges = @ \cup {range_key},
                       !.events = Append(@, MakeEvent(code, dates, window, i,
                                                      res.details))])
             ELSE ScanWindow(self, code, prices, dates, window, i + 1, acc)

RECURSIVE ScanWindows(_, _, _, _, _, _)
\* for window in self.windows  (line 315), from the w-th window on
ScanWindows(self, code, prices, dates, w, acc) ==
    IF w > Len(self.windows) \/ acc.status = "raised" THEN acc
    ELSE ScanWindows(self, code, prices, dates, w + 1,
            ScanWindow(self, code, prices, dates, self.windows[w],
                       self.windows[w], acc))

RECURSIVE InsertByEndDate_Unstable(_, _)
\* InsertByEndDate that places e before the events of equal end_date
InsertByEndDate_Unstable(sorted, e) ==
    IF sorted = <<>> THEN <<e>>
    ELSE IF sorted[Len(sorted)].end_date < e.end_date THEN Append(sorted, e)
    ELSE Append(InsertByEndDate_Unstable(SubSeq(sorted, 1, Len(sorted) - 1),
                                         e),
                sorted[Len(sorted)])

RECURSIVE InsertByEndDate(_, _)
\* e placed after every event whose end_date is <= its own
InsertByEndDate(sorted, e) ==
    IF sorted = <<>> THEN <<e>>
    ELSE IF sorted[Len(sorted)].end_date <= e.end_date THEN Append(sorted, e)
    ELSE Append(InsertByEndDate(SubSeq(sorted, 1, Len(sorted) - 1), e),
                sorted[Len(sorted)])

RECURSIVE SortByEndDate(_)
\* events.sort(key=lambda e: e.end_date)  (line 344): a stable sort
SortByEndDate(events) ==
    IF events = <<>> THEN <<>>
    ELSE InsertByEndDate(SortByEndDate(SubSeq(events, 1, Len(events) - 1)),
                         events[Len(events)])

RECURSIVE MaxOf(_)
MaxOf(s) ==
    IF Len(s) = 1 THEN s[1]
    ELSE LET m == MaxOf(Tail(s)) IN IF s[1] > m THEN s[1] ELSE m

\* SurgeTooShort that tests only for an empty series
SurgeTooShort_EmptyOnly(self, data) == Len(data) = 0

\* if not data or len(data) < max(self.windows) + 1: return events (line 306)
SurgeTooShort(self, data) ==
    Len(data) = 0 \/ Len(data) < MaxOf(self.windows) + 1

\* SurgeDetector.scan_fund on the stored series of `code`: the events it
\* returns, or status "raised" when the analyzer's exception escapes
scan_fund(self, db, code) ==
    LET data == get_timeseries(db, code)
        acc == ScanWindows(self, code, PricesOf(data), DatesOf(data), 1,
                 [status |-> "ok", events |-> <<>>, detected_ranges |-> {}])
    IN  IF SurgeTooShort(self, data) THEN [status |-> "ok", events |-> <<>>]
        ELSE IF acc.status = "raised"
        THEN [status |-> "raised", events |-> <<>>]
        ELSE [status |-> "ok", events |-> SortByEndDate(acc.events)]

----------------------------------------------------------------------------
\* SurgeBacktester

\* list_instruments(instrument_type='fund'): the funds, ORDER BY code
list_instruments == <<"F1", "F2">>

\* SurgeDetector() of SurgeBacktester.__init__: the default thresholds
\* (min_gain 15.0, min_slope 0.3, acceleration_threshold 1.3), with the
\* default windows [10, 20, 30] scaled to the model's series
DefaultDetector == SurgeDetector(<<2, 3>>, 1500, 30, 130)

RECURSIVE ScanAllLoop(_, _, _, _)
\* The for loop of scan_all_funds (lines 361-366) from the k-th instrument:
\* all_events as extended so far, and whether scan_fund has raised
ScanAllLoop(self_detector, db, k, events) ==
    IF k > Len(list_instruments) THEN [status |-> "ok", all_events |-> events]
    ELSE LET res == scan_fund(self_detector, db, list_instruments[k])
         IN  IF res.status = "raised"
             THEN [status |-> "raised", all_events |-> events]
             ELSE ScanAllLoop(self_detector, db, k + 1, events \o res.events)

\* SurgeBacktester.scan_all_funds
scan_all_funds(self_detector, self_all_events, db) ==
    ScanAllLoop(self_detector, db, 1, self_all_events)

\* A float as sqlite3 stores it in a REAL column: nan is stored as NULL
Stored(x) == IF x.k = "nan" THEN [k |-> "null", v |-> 0] ELSE x

\* The columns save_to_database passes to save_surge_event for the event e
\* (lines 408-417): no name and no acceleration; is_accelerating as 1 or 0
\* (database.py line 286)
SurgeRow(e) ==
    [code |-> e.code,
     start_date |-> e.start_date,
     end_date |-> e.end_date,
     window |-> e.window,
     total_gain |-> e.total_gain,
     slope_first |-> Stored(e.slope_first),
     slope_second |-> Stored(e.slope_second),
     is_accelerating |-> IF e.is_accelerating THEN 1 ELSE 0]

\* clear_surge_events(): DELETE FROM surge_events
clear_surge_events(table) == {}

\* save_surge_event(...): INSERT OR REPLACE under
\* UNIQUE(code, start_date, end_date)
save_surge_event(table, row) ==
    { r \in table : ~(/\ r.code = row.code
                      /\ r.start_date = row.start_date
                      /\ r.end_date = row.end_date) } \cup {row}

RECURSIVE SaveLoop(_, _, _)
\* The for loop of save_to_database (lines 407-417) from the k-th event
SaveLoop(events, k, table) ==
    IF k > Len(events) THEN table
    ELSE SaveLoop(events, k + 1, save_surge_event(table, SurgeRow(events[k])))

\* SurgeBacktester.save_to_database: the table it leaves and the count it
\* returns
save_to_database(self_all_events, table) ==
    [table |-> SaveLoop(self_all_events, 1, clear_surge_events(table)),
     count |-> Len(self_all_events)]

\* The number of events generate_report lists (line 387: [:10])
TopEvents == 10

RECURSIVE InsertByGain_Reversed(_, _, _)
\* InsertByGain that places p before the positions of equal total_gain
InsertByGain_Reversed(events, sorted, p) ==
    IF sorted = <<>> THEN <<p>>
    ELSE IF events[sorted[Len(sorted)]].total_gain > events[p].total_gain
         THEN Append(sorted, p)
    ELSE Append(InsertByGain_Reversed(events,
                                      SubSeq(sorted, 1, Len(sorted) - 1), p),
                sorted[Len(sorted)])

RECURSIVE InsertByGain(_, _, _)
\* The position p placed after every position whose event has a
\* total_gain >= that of the event at p
InsertByGain(events, sorted, p) ==
    IF sorted = <<>> THEN <<p>>
    ELSE IF events[sorted[Len(sorted)]].total_gain >= events[p].total_gain
         THEN Append(sorted, p)
    ELSE Append(InsertByGain(events, SubSeq(sorted, 1, Len(sorted) - 1), p),
                sorted[Len(sorted)])

RECURSIVE SortByGain(_, _)
\* sorted(self.all_events, key=lambda e: e.total_gain, reverse=True)
\* (line 387) as the positions of the first n events in sorted order: a
\* stable sort, and reverse=True keeps the order of equal keys
SortByGain(events, n) ==
    IF n = 0 THEN <<>>
    ELSE InsertByGain(events, SortByGain(events, n - 1), n)

\* SurgeBacktester.generate_report: the report as what its lines say: the
\* two counts, and the events of the numbered entries in order (with the
\* position in all_events each was taken from)
generate_report(self_all_events) ==
    IF self_all_events = <<>>
    THEN [found |-> FALSE, total |-> 0, accelerating |-> 0,
          positions |-> <<>>, top_events |-> <<>>]
    ELSE LET order == SortByGain(self_all_events, Len(self_all_events))
             top == SubSeq(order, 1,
                           IF Len(order) < TopEvents THEN Len(order)
                           ELSE TopEvents)
         IN  [found |-> TRUE,
              total |-> Len(self_all_events),
              accelerating |->
                  Cardinality({ n \in 1..Len(self_all_events) :
                                  self_all_events[n].is_accelerating }),
              positions |-> top,
              top_events |-> [i \in 1..Len(top) |-> self_all_events[top[i]]]]

----------------------------------------------------------------------------
\* IndicatorService (indicators.py).  Labels are written in English:
\*   "insufficient data"       line 33  (the reason given to _empty_result)
\*   "strongly outperforming"  line 82    "slightly outperforming"  line 85
\*   "underperforming"         line 88    "strong upward momentum"  line 92
\*   "trending up"             line 95    "downtrend"               line 98
\*   "volatility compressed"   line 102   "volatility narrowing"    line 105

\* df.tail(k) of a list of rows or prices
TailOf(s, k) == SubSeq(s, Len(s) - k + 1, Len(s))

\* ((current - start) / start) * 100 over a window (lines 41-43, 52-54)
Return(window) ==
    Rat(100 * (window[Len(window)] - window[1]), window[1])

\* x - y of two numbers
Minus(x, y) == Rat(x.n * y.d - y.n * x.d, x.d * y.d)

\* x > c for a number x and an integer c
Above(x, c) == x.n > c * x.d

\* x < c/10 for a number x
BelowTenths(x, c) == 10 * x.n < c * x.d

\* df['value'].pct_change().std() * 100 (lines 59-60, 67-68): nan for fewer
\* than two returns; for the two returns r1, r2 of three samples the sample
\* standard deviation is |r1 - r2| / sqrt(2).  The number kept is
\* |r1 - r2| = |v1*v1 - v0*v2| / (v0*v1): the factor 100 / sqrt(2) is
\* common to every volatility and cancels in vol_ratio.
Volatility(window) ==
    IF Len(window) < 3 THEN NaN
    ELSE Rat(Abs(window[2] * window[2] - window[1] * window[3]),
             window[1] * window[2])

\* Lines 63-75: the ratio to the volatility of the preceding window of
\* equal length, 1.0 without one or when that volatility is not > 0
VolRatio(prices, days, volatility) ==
    IF Len(prices) >= (days + 1) * 2
    THEN LET prev_volatility ==
                Volatility(SubSeq(TailOf(prices, (days + 1) * 2), 1, days + 1))
         IN  IF prev_volatility.k = "num" /\ prev_volatility.n > 0
             THEN IF volatility.k = "num"
                  THEN Rat(volatility.n * prev_volatility.d,
                           volatility.d * prev_volatility.n)
                  ELSE NaN
             ELSE Rat(1, 1)
    ELSE Rat(1, 1)

\* RsSignal that scores the size of the gap to the benchmark, whichever way
\* it goes
RsSignal_Magnitude(rs_value) ==
    IF Above(rs_value, 5) \/ Above(Minus(Rat(0, 1), rs_value), 5)
    THEN [points |-> 2, labels |-> <<"strongly outperforming">>]
    ELSE IF rs_value.n # 0
    THEN [points |-> 1, labels |-> <<"slightly outperforming">>]
    ELSE [points |-> 0, labels |-> <<"underperforming">>]

\* The relative-strength rule group (lines 81-88): points and label
RsSignal(rs_value) ==
    IF Above(rs_value, 5)
    THEN [points |-> 2, labels |-> <<"strongly outperforming">>]
    ELSE IF Above(rs_value, 0)
    THEN [points |-> 1, labels |-> <<"slightly outperforming">>]
    ELSE [points |-> 0, labels |-> <<"underperforming">>]

\* The momentum rule group (lines 91-98)
MomentumSignal(momentum) ==
    IF Above(momentum, 10)
    THEN [points |-> 2, labels |-> <<"strong upward momentum">>]
    ELSE IF Above(momentum, 0)
    THEN [points |-> 1, labels |-> <<"trending up">>]
    ELSE IF ~Above(momentum, -5) /\ momentum.n # -5 * momentum.d
    THEN [points |-> 0, labels |-> <<"downtrend">>]
    ELSE [points |-> 0, labels |-> <<>>]

\* VolSignal that gives the compressed row a single point
VolSignal_OnePoint(vol_ratio) ==
    IF vol_ratio.k = "num" /\ BelowTenths(vol_ratio, 6)
    THEN [points |-> 1, labels |-> <<"volatility compressed">>]
    ELSE IF vol_ratio.k = "num" /\ BelowTenths(vol_ratio, 8)
    THEN [points |-> 1, labels |-> <<"volatility narrowing">>]
    ELSE [points |-> 0, labels |-> <<>>]

\* The volatility-compression rule group (lines 101-106); a comparison
\* with nan is False
VolSignal(vol_ratio) ==
    IF vol_ratio.k = "num" /\ BelowTenths(vol_ratio, 6)
    THEN [points |-> 2, labels |-> <<"volatility compressed">>]
    ELSE IF vol_ratio.k = "num" /\ BelowTenths(vol_ratio, 8)
    THEN [points |-> 1, labels |-> <<"volatility narrowing">>]
    ELSE [points |-> 0, labels |-> <<>>]

\* WarningLevel that needs more than 4 points for HIGH
WarningLevel_Above(score) ==
    IF score > 4 THEN "HIGH" ELSE IF score >= 2 THEN "MEDIUM" ELSE "LOW"

\* Lines 109-114
WarningLevel(score) ==
    IF score >= 4 THEN "HIGH" ELSE IF score >= 2 THEN "MEDIUM" ELSE "LOW"

\* _empty_result whose warning level is the lowest of the scored ones
_empty_result_Low(reason) ==
    [fund_code |-> "", period_days |-> 0, momentum |-> 0,
     relative_strength |-> 0, index_return |-> 0,
     volatility |-> Rat(0, 1), vol_ratio |-> 100, analysis |-> <<reason>>,
     warning_level |-> "LOW", score |-> 0]

\* IndicatorService._empty_result(reason); numbers in hundredths
_empty_result(reason) ==
    [fund_code |-> "", period_days |-> 0, momentum |-> 0,
     relative_strength |-> 0, index_return |-> 0,
     volatility |-> Rat(0, 1), vol_ratio |-> 100, analysis |-> <<reason>>,
     warning_level |-> "NONE", score |-> 0]

\* Lines 117-128: the result, its numbers rounded to two decimals and kept
\* in hundredths (volatility is kept as Volatility gives it)
IndicatorResult(fund_code, days, momentum, rs_value, index_return, volatility, vol_ratio) ==
    LET rs == RsSignal(rs_value)
        mo == MomentumSignal(momentum)
        vo == VolSignal(vol_ratio)
        score == rs.points + mo.points + vo.points
    IN  [fund_code |-> fund_code, period_days |-> days,
         momentum |-> Round(momentum.n, momentum.d, 2),
         relative_strength |-> Round(rs_value.n, rs_value.d, 2),
         index_return |-> Round(index_return.n, index_return.d, 2),
         volatility |-> volatility,
         vol_ratio |-> Round(vol_ratio.n, vol_ratio.d, 2),
         analysis |-> rs.labels \o mo.labels \o vo.labels,
         warning_level |-> WarningLevel(score), score |-> score]

\* IndicatorService.calculate_indicators for days >= -1.  With days = -1
\* a non-empty series passes the guard of line 32, tail(0) is the empty
\* frame and iloc[-1] (line 41) raises IndexError.
calculate_indicators(db, fund_code, days) ==
    LET fund_data == get_timeseries(db, fund_code)
        index_data == get_timeseries(db, index_code)
    IN  IF Len(fund_data) = 0 \/ Len(fund_data) < days + 1
        THEN [status |-> "ok", result |-> _empty_result("insufficient data")]
        ELSE IF days + 1 = 0
        THEN [status |-> "raised", result |-> <<>>]
        ELSE LET prices == PricesOf(fund_data)
                 window == TailOf(prices, days + 1)
                 momentum == Return(window)
                 index_return ==
                    IF Len(index_data) # 0 /\ Len(index_data) >= days + 1
                    THEN Return(TailOf(PricesOf(index_data), days + 1))
                    ELSE Rat(0, 1)
                 volatility == Volatility(window)
             IN  [status |-> "ok",
                  result |->
                    IndicatorResult(fund_code, days, momentum,
                                    Minus(momentum, index_return),
                                    index_return, volatility,
                                    VolRatio(prices, days, volatility))]

----------------------------------------------------------------------------
\* The instrument and sync_state tables (database.py)

\* Whether the connection enforces foreign keys.  get_db (lines 16-27)
\* issues no PRAGMA foreign_keys, so that is the default of the SQLite
\* library the interpreter is linked with: off, unless the library was
\* compiled with SQLITE_DEFAULT_FOREIGN_KEYS=1
ForeignKeys == {FALSE, TRUE}

\* No row of sync_state for a code
NoSyncState == [status |-> "none", last_success_date |-> Absent]

\* get_sync_state(code): the row, or None (NoSyncState)
get_sync_state(table, code) == table[code]

\* update_sync_state(code, last_success_date, status, message): INSERT ...
\* ON CONFLICT(code) DO UPDATE SET last_success_date =
\* excluded.last_success_date, ...; None (Absent) is stored as NULL
update_sync_state(table, code, last_success_date, status) ==
    [table EXCEPT ![code] =
        [status |-> status, last_success_date |-> last_success_date]]

\* delete_instrument(code) on a connection that enforces foreign keys or
\* does not: the four tables after DELETE FROM instrument WHERE code = ?,
\* and cursor.rowcount
delete_instrument(db, code, foreign_keys) ==
    LET cascade == foreign_keys /\ code \in db.instrument
    IN  [instrument |-> db.instrument \ {code},
         timeseries |->
             IF cascade
             THEN [db.timeseries EXCEPT ![code] = [d \in TableDates |-> Absent]]
             ELSE db.timeseries,
         sync_state |->
             IF cascade THEN [db.sync_state EXCEPT ![code] = NoSyncState]
             ELSE db.sync_state,
         surge_events |->
             IF cascade THEN { r \in db.surge_events : r.code # code }
             ELSE db.surge_events,
         instrument_deleted |-> IF code \in db.instrument THEN 1 ELSE 0]

\* The identities of the sync_single calls that can be in progress together
----------------------------------------------------------------------------
\* DataFetcher.incremental_sync (data_fetcher.py)

\* The history the source returns for start_date..end_date: one row per
\* date, none when the range is empty or the fetch failed (the fetch
\* methods return an empty frame on any error)
SyncValue == 400000

FetchHistory(start_date, end_date) ==
    [k \in 1..(IF end_date >= start_date THEN end_date - start_date + 1
               ELSE 0) |-> [date |-> start_date + k - 1, value |-> SyncValue]]

\* start_date (lines 375-383): the day after last_success_date, or the
\* first date of the range on a first sync
SyncStartDate(table, code) ==
    IF get_sync_state(table, code).last_success_date # Absent
    THEN get_sync_state(table, code).last_success_date + 1
    ELSE 1

\* What one incremental_sync call returned or raised, and the tables after
\* it
SyncOutcome(rows, table, outcome, success, message) ==
    [timeseries |-> rows, sync_state |-> table, outcome |-> outcome,
     success |-> success, message |-> message]

\* incremental_sync(code, instrument_type) against the series `rows` of the
\* code and the sync_state table, with end_date `today`; the first `stored`
\* rows of the history are written and the rest fail in upsert_timeseries
\* (lines 403-415), `write` tells whether update_sync_state of line 418
\* raises, `handler` whether the one of line 429 does.
incremental_sync(rows, table, code, instrument_type, today, stored, write, handler) ==
    LET history_df == FetchHistory(SyncStartDate(table, code), today)
        written == IF stored < Len(history_df) THEN stored
                   ELSE Len(history_df)
        after == [d \in TableDates |->
                    IF \E k \in 1..written : history_df[k].date = d
                    THEN SyncValue ELSE rows[d]]
        last_date == IF written = 0 THEN Absent
                     ELSE history_df[written].date
    IN  IF instrument_type \notin {"fund", "index"}
        THEN SyncOutcome(rows, table, "returned", FALSE, "Unsupported type")
        ELSE IF Len(history_df) = 0
        THEN SyncOutcome(rows, table, "returned", TRUE, "No new data to sync")
        ELSE IF write = "ok"
        THEN SyncOutcome(after,
                 update_sync_state(table, code, last_date, "success"),
                 "returned", TRUE, "Incremental sync")
        ELSE IF handler = "ok"
        THEN SyncOutcome(after,
                 update_sync_state(table, code, Absent, "failed"),
                 "returned", FALSE, "Incremental sync failed")
        ELSE SyncOutcome(after, table, "raised", FALSE, "raised")

----------------------------------------------------------------------------
\* SyncService (sync_service.py)

\* AlreadySyncing that never finds the code
AlreadySyncing_Never(self_syncing, code) == FALSE

\* if code in self.syncing  (line 38)
AlreadySyncing(self_syncing, code) == code \in self_syncing

\* Finally that keeps the code when the call ends by raising
Finally_OnReturn(self_syncing, code, raised) ==
    IF raised THEN self_syncing ELSE self_syncing \ {code}

\* finally: self.syncing.discard(code)  (lines 86-87), on return and on
\* raise alike
Finally(self_syncing, code, raised) == self_syncing \ {code}

\* The result dict of lines 39-44, 61-66 and 74-79 (timestamp left out)
SyncResult(code, success, message) ==
    [code |-> code, success |-> success, message |-> message]

\* The instrument types of the table's CHECK constraint
InstrumentTypes == {"fund", "etf", "index"}

CallIds == {1, 2}

\* A call that has not started
IdleCall == [code |-> "", pc |-> "idle", result |-> <<>>]

\* Nothing registered beyond the codes, no sync recorded, no sync running
IdleService ==
    /\ instrument = Codes
    /\ sync_state = [c \in Codes |-> NoSyncState]
    /\ syncing = {}
    /\ calls = [id \in CallIds |-> IdleCall]

----------------------------------------------------------------------------
\* Inputs

\* Thresholds the phase detector is constructed with (main.py lines 228-232)
PhaseConfigs ==
    { PhaseDetector(5, g, d) : g \in {500, 1000}, d \in {1, 3} }

WindowLists == { <<3>>, <<2, 3>>, <<3, 2>>, <<3, 3>>, <<1, 2>>, <<0, 3>> }

\* Configurations the surge detector is constructed with
SurgeConfigs ==
    { SurgeDetector(w, 1500, s, 130) : w \in WindowLists, s \in {30, 600} }

\* The code whose series the detector specifications fill
Fund == "F1"

EmptyTable == [d \in TableDates |-> Absent]

\* A table holding the prices ps on the dates 1..Len(ps)
TableOf(ps) ==
    [d \in TableDates |-> IF d <= Len(ps) THEN ps[d] ELSE Absent]

Returned(op, code, self, status, value) ==
    [op |-> op, code |-> code, self |-> self, status |-> status,
     value |-> value]

----------------------------------------------------------------------------
\* Operations

\* upsert_timeseries that keeps the stored value of a date that has one
\* (INSERT OR IGNORE)
upsert_timeseries_Ignore(code, date, value) ==
    /\ timeseries' = [timeseries EXCEPT
                        ![code][date] = IF @ = Absent THEN value ELSE @]
    /\ ret' = Returned("upsert_timeseries", code,
                       [date |-> date, value |-> value], "ok", <<>>)
    /\ previous' = <<>>
    /\ UNCHANGED <<all_events, detector, scans, surge_events, service>>

\* upsert_timeseries(code, date, value): INSERT ... ON CONFLICT DO UPDATE
upsert_timeseries(code, date, value) ==
    /\ timeseries' = [timeseries EXCEPT ![code][date] = value]
    /\ ret' = Returned("upsert_timeseries", code,
                       [date |-> date, value |-> value], "ok", <<>>)
    /\ previous' = <<>>
    /\ UNCHANGED <<all_events, detector, scans, surge_events, service>>

\* What a call leaves in `previous`: the record of the call before it when
\* that was the same operation of a detector of the same configuration on
\* the same code, with the series as stored when this call starts
Repeats(op, code, self) ==
    IF ret.op = op /\ ret.code = code /\ ret.self = self
    THEN << [ret |-> ret, series |-> timeseries[code]] >>
    ELSE <<>>

\* UptrendPhaseDetector(...).detect_phases(code)
DetectPhases(self, code) ==
    /\ ret' = Returned("detect_phases", code, self, "ok",
                       detect_phases(self, timeseries, code))
    /\ previous' = Repeats("detect_phases", code, self)
    /\ UNCHANGED <<timeseries, all_events, detector, scans, surge_events, service>>

\* SurgeDetector(...).scan_fund(code)
ScanFund(self, code) ==
    /\ \E res \in {scan_fund(self, timeseries, code)} :
           ret' = Returned("scan_fund", code, self, res.status, res.events)
    /\ previous' = Repeats("scan_fund", code, self)
    /\ UNCHANGED <<timeseries, all_events, detector, scans, surge_events, service>>

\* backtester = SurgeBacktester()
NewBacktester ==
    /\ scans > 0
    /\ all_events' = <<>>
    /\ detector' = DefaultDetector
    /\ scans' = 0
    /\ ret' = Returned("SurgeBacktester", "", <<>>, "ok", <<>>)
    /\ UNCHANGED <<timeseries, previous, surge_events, service>>

\* backtester.scan_all_funds()
ScanAllFunds ==
    /\ scans < MaxScans
    /\ \E res \in {scan_all_funds(detector, all_events, timeseries)} :
           /\ all_events' = res.all_events
           /\ ret' = Returned("scan_all_funds", "", detector, res.status,
                              IF res.status = "ok" THEN res.all_events
                              ELSE <<>>)
    /\ scans' = scans + 1
    /\ UNCHANGED <<timeseries, detector, previous, surge_events, service>>

\* backtester.save_to_database()
SaveToDatabase ==
    /\ \E res \in {save_to_database(all_events, surge_events)} :
           /\ surge_events' = res.table
           /\ ret' = Returned("save_to_database", "", detector, "ok",
                              res.count)
    /\ previous' = << [surge_events |-> surge_events] >>
    /\ UNCHANGED <<timeseries, all_events, detector, scans, service>>

\* backtester.generate_report()
GenerateReport ==
    /\ ret' = Returned("generate_report", "", detector, "ok",
                       generate_report(all_events))
    /\ previous' = <<>>
    /\ UNCHANGED <<timeseries, all_events, detector, scans, surge_events, service>>

\* indicator_service.calculate_indicators(code, days)  (main.py line 182)
CalculateIndicators(code, days) ==
    /\ \E res \in {calculate_indicators(timeseries, code, days)} :
           ret' = Returned("calculate_indicators", code, [days |-> days],
                           res.status, res.result)
    /\ previous' = <<>>
    /\ UNCHANGED <<timeseries, all_events, detector, scans, surge_events, service>>

\* DELETE /api/instruments/{code}  (main.py lines 280-311): 404 when
\* get_instrument_info finds no row, else delete_instrument
DeleteInstrument(code) ==
    /\ IF code \notin instrument
       THEN /\ ret' = Returned("delete_instrument", code, <<>>, "404", <<>>)
            /\ UNCHANGED <<timeseries, surge_events, instrument, sync_state>>
       ELSE \E foreign_keys \in ForeignKeys :
              \E res \in {delete_instrument(
                              [instrument |-> instrument,
                               timeseries |-> timeseries,
                               sync_state |-> sync_state,
                               surge_events |-> surge_events],
                              code, foreign_keys)} :
                /\ instrument' = res.instrument
                /\ timeseries' = res.timeseries
                /\ sync_state' = res.sync_state
                /\ surge_events' = res.surge_events
                /\ ret' = Returned("delete_instrument", code, <<>>, "ok",
                                   res.instrument_deleted)
    /\ previous' = <<>>
    /\ UNCHANGED <<all_events, detector, scans, syncing, calls>>

\* upsert_instrument(code, ...)  (database.py lines 157-174)
UpsertInstrument(code) ==
    /\ instrument' = instrument \cup {code}
    /\ ret' = Returned("upsert_instrument", code, <<>>, "ok", <<>>)
    /\ previous' = <<>>
    /\ UNCHANGED <<timeseries, all_events, detector, scans, surge_events,
                   sync_state, syncing, calls>>

----------------------------------------------------------------------------
\* Specifications

\* Both detectors over one fund's series of Values
Init ==
    /\ timeseries = [c \in Codes |-> EmptyTable]
    /\ all_events = <<>>
    /\ detector = DefaultDetector
    /\ scans = 0
    /\ ret = Returned("init_database", "", <<>>, "ok", <<>>)
    /\ previous = <<>>
    /\ surge_events = {}
    /\ IdleService

Next ==
    \/ \E d \in Dates, v \in Values : upsert_timeseries(Fund, d, v)
    \/ \E self \in PhaseConfigs : DetectPhases(self, Fund)
    \/ \E self \in SurgeConfigs : ScanFund(self, Fund)

Spec == Init /\ [][Next]_vars

\* The phase detector over one fund's series of PhaseValues
NextPhase ==
    \/ \E d \in Dates, v \in PhaseValues : upsert_timeseries(Fund, d, v)
    \/ \E self \in PhaseConfigs : DetectPhases(self, Fund)

SpecPhase == Init /\ [][NextPhase]_vars

\* Prices that lie exactly 5% and exactly 7% below 100, and above it
BoundaryValues == {93, 95, 100, 110}

\* Detectors with a tolerance of 5 and of 7 percent
BoundaryConfigs == { PhaseDetector(tol, 500, 1) : tol \in {5, 7} }

\* The phase detector over series with samples at the tolerance
NextBoundary ==
    \/ \E d \in Dates, v \in BoundaryValues : upsert_timeseries(Fund, d, v)
    \/ \E self \in BoundaryConfigs : DetectPhases(self, Fund)

SpecBoundary == Init /\ [][NextBoundary]_vars

\* Prices of the series the backtester scans
BacktestValues == {400000, 480000, 600000}

\* The stored series of the second fund: flat, or rising by 20% and 25%
BacktestSeries ==
    { <<400000, 400000, 400000, 400000>>,
      <<400000, 400000, 480000, 600000>> }

\* The dates on which the first fund's sample is revised between two runs
RevisedDates == {2}

\* The backtester over two funds with stored series, the first with a
\* sample on every date
InitBacktest ==
    /\ \E f1 \in [Dates -> BacktestValues], f2 \in BacktestSeries :
           timeseries = [c \in Codes |->
                           IF c = "F1" THEN TableOf(f1)
                           ELSE IF c = "F2" THEN TableOf(f2)
                           ELSE EmptyTable]
    /\ all_events = <<>>
    /\ detector = DefaultDetector
    /\ scans = 0
    /\ ret = Returned("SurgeBacktester", "", <<>>, "ok", <<>>)
    /\ previous = <<>>
    /\ surge_events = {}
    /\ IdleService

NextBacktest ==
    \/ ScanAllFunds
    \/ NewBacktester
    \/ SaveToDatabase
    \/ GenerateReport
    \/ \E d \in RevisedDates, v \in BacktestValues :
          upsert_timeseries("F1", d, v)

SpecBacktest == InitBacktest /\ [][NextBacktest]_vars

\* Period lengths the indicator endpoint is called with (main.py line 166:
\* any integer of the query string)
DaysValues == {-1, 0, 1, 2}

\* Stored benchmark series: none, one of two samples, and series of three
\* samples that rise by 4% or by 0.004%, fall by as much, or end where
\* they began
IndexSeries ==
    { <<>>, <<100000, 104000>>, <<100000, 100000, 104000>>,
      <<99996, 99996, 100000>>, <<100000, 100000, 99996>>,
      <<104000, 104000, 100000>>, <<100000, 104000, 100000>> }

\* The indicator service over a stored target series of up to MaxSamples
\* samples and a stored benchmark series
InitIndicator ==
    /\ \E n \in 0..MaxSamples, g \in IndexSeries :
         \E f \in [1..n -> FundValues] :
           timeseries = [c \in Codes |->
                           IF c = Fund THEN TableOf(f)
                           ELSE IF c = index_code THEN TableOf(g)
                           ELSE EmptyTable]
    /\ all_events = <<>>
    /\ detector = DefaultDetector
    /\ scans = 0
    /\ ret = Returned("init_database", "", <<>>, "ok", <<>>)
    /\ previous = <<>>
    /\ surge_events = {}
    /\ IdleService

NextIndicator == \E days \in DaysValues : CalculateIndicators(Fund, days)

SpecIndicator == InitIndicator /\ [][NextIndicator]_vars

\* The rows a save_to_database left for the two funds
SavedRows ==
    { SurgeRow([code |-> c, start_date |-> 1, end_date |-> 4, window |-> 3,
                total_gain |-> 2000,
                slope_first |-> [k |-> "num", v |-> 0],
                slope_second |-> [k |-> "num", v |-> 20000],
                is_accelerating |-> TRUE]) : c \in {"F1", "F2"} }

\* The database after both funds were synced and backtested: samples,
\* a sync_state row and a surge_events row for each
\* DataFetcher.incremental_sync(code, instrument_type) called on its own
IncrementalSync(code, instrument_type, today, stored, write, handler) ==
    \E res \in {incremental_sync(timeseries[code], sync_state, code,
                     instrument_type, today, stored, write, handler)} :
        /\ timeseries' = [timeseries EXCEPT ![code] = res.timeseries]
        /\ sync_state' = res.sync_state
        /\ ret' = Returned("incremental_sync", code,
                       [instrument_type |-> instrument_type,
                        start_date |-> SyncStartDate(sync_state, code)],
                       res.outcome,
                       [success |-> res.success, message |-> res.message])
        /\ previous' = << [sync_state |-> get_sync_state(sync_state, code)] >>
        /\ UNCHANGED <<all_events, detector, scans, surge_events, instrument,
                       syncing, calls>>

\* SyncService.sync_single(code, on_progress) by call `id`, from its start
\* to its first await or, without one, to its end (lines 38-87);
\* instrument_type is the type stored for the code.  The call is one step
\* of the event loop up to `await on_progress(result)`: incremental_sync
\* is a plain blocking call.
SyncSingle(id, code, on_progress, instrument_type, today, stored, write, handler) ==
    /\ calls[id].pc = "idle"
    /\ previous' = <<>>
    /\ UNCHANGED <<all_events, detector, scans, surge_events, instrument>>
    /\ IF AlreadySyncing(syncing, code)
       THEN /\ ret' = Returned("sync_single", code,
                           [call |-> id, on_progress |-> on_progress,
                            invoked |-> <<>>],
                           "ok", SyncResult(code, FALSE, "Already syncing"))
            /\ UNCHANGED <<timeseries, sync_state, syncing, calls>>
       ELSE \E res \in {incremental_sync(timeseries[code], sync_state, code,
                            IF code \in instrument THEN instrument_type
                            ELSE "fund",
                            today, stored, write, handler)} :
              LET raised == res.outcome = "raised"
                  result == SyncResult(code, res.success, res.message)
                  self == [call |-> id, on_progress |-> on_progress,
                           invoked |-> <<"incremental_sync">>]
              IN  /\ timeseries' = [timeseries EXCEPT
                                       ![code] = res.timeseries]
                  /\ sync_state' = res.sync_state
                  /\ IF on_progress
                     THEN /\ syncing' = syncing \cup {code}
                          /\ calls' = [calls EXCEPT ![id] =
                                 [code |-> code,
                                  pc |-> IF raised THEN "handler"
                                         ELSE "progress",
                                  result |-> result]]
                          /\ ret' = Returned("sync_single", code, self,
                                         "awaiting", result)
                     ELSE /\ syncing' = Finally(syncing \cup {code}, code,
                                                FALSE)
                          /\ ret' = Returned("sync_single", code, self,
                                         "ok", result)
                          /\ UNCHANGED calls

\* The awaited on_progress(result) of call `id` returns: the call returns
\* its result through the finally clause (lines 69-71, 82-87)
ProgressReturns(id) ==
    /\ calls[id].pc \in {"progress", "handler"}
    /\ syncing' = Finally(syncing, calls[id].code, FALSE)
    /\ calls' = [calls EXCEPT ![id] = IdleCall]
    /\ ret' = Returned("sync_single", calls[id].code,
                   [call |-> id, on_progress |-> TRUE, invoked |-> <<>>],
                   "ok", calls[id].result)
    /\ previous' = <<>>
    /\ UNCHANGED <<timeseries, all_events, detector, scans, surge_events,
                   instrument, sync_state>>

\* The awaited on_progress(result) of call `id` raises an Exception: from
\* the try body the except clause builds a failure result and awaits
\* on_progress again (lines 73-82); from the except clause the exception
\* leaves the call through the finally clause.
ProgressRaises(id) ==
    /\ calls[id].pc \in {"progress", "handler"}
    /\ previous' = <<>>
    /\ UNCHANGED <<timeseries, all_events, detector, scans, surge_events,
                   instrument, sync_state>>
    /\ IF calls[id].pc = "progress"
       THEN /\ calls' = [calls EXCEPT ![id].pc = "handler",
                           ![id].result = SyncResult(calls[id].code, FALSE,
                                                     "raised")]
            /\ ret' = Returned("sync_single", calls[id].code,
                           [call |-> id, on_progress |-> TRUE,
                            invoked |-> <<>>],
                           "awaiting",
                           SyncResult(calls[id].code, FALSE, "raised"))
            /\ UNCHANGED syncing
       ELSE /\ syncing' = Finally(syncing, calls[id].code, TRUE)
            /\ calls' = [calls EXCEPT ![id] = IdleCall]
            /\ ret' = Returned("sync_single", calls[id].code,
                           [call |-> id, on_progress |-> TRUE,
                            invoked |-> <<>>],
                           "raised", <<>>)

\* Call `id` is cancelled at its await: CancelledError is no Exception, so
\* only the finally clause runs
ProgressCancelled(id) ==
    /\ calls[id].pc \in {"progress", "handler"}
    /\ syncing' = Finally(syncing, calls[id].code, TRUE)
    /\ calls' = [calls EXCEPT ![id] = IdleCall]
    /\ ret' = Returned("sync_single", calls[id].code,
                   [call |-> id, on_progress |-> TRUE, invoked |-> <<>>],
                   "cancelled", <<>>)
    /\ previous' = <<>>
    /\ UNCHANGED <<timeseries, all_events, detector, scans, surge_events,
                   instrument, sync_state>>

\* GET /api/sync/syncing  (main.py lines 444-452)
GetSyncingList ==
    /\ ret' = Returned("get_syncing_list", "", <<>>, "ok", syncing)
    /\ previous' = <<>>
    /\ UNCHANGED <<timeseries, all_events, detector, scans, surge_events,
                   service>>

\* The codes synced, and whether a write of the sync state goes through
SyncCodes == {"F1", "F2"}

Writes == {"ok", "raises"}

\* One run of incremental_sync under sync_single: the stored type, the end
\* date, how many rows are written, and whether the writes of the sync
\* state go through.  Nothing new; two new rows; two rows none of which
\* is written; the success write raises; both writes raise; an etf.
SyncRun(instrument_type, today, stored, write, handler) ==
    [instrument_type |-> instrument_type, today |-> today,
     stored |-> stored, write |-> write, handler |-> handler]

SyncRuns ==
    { SyncRun("fund", 0, 0, "ok", "ok"),
      SyncRun("fund", 2, 2, "ok", "ok"),
      SyncRun("fund", 2, 0, "ok", "ok"),
      SyncRun("fund", 2, 2, "raises", "ok"),
      SyncRun("fund", 2, 2, "raises", "raises"),
      SyncRun("etf", 2, 2, "ok", "ok") }

NextSync ==
    \/ \E id \in CallIds, code \in SyncCodes, on_progress \in BOOLEAN,
          run \in SyncRuns :
          SyncSingle(id, code, on_progress, run.instrument_type, run.today,
                     run.stored, run.write, run.handler)
    \/ \E id \in CallIds : ProgressReturns(id)
    \/ \E id \in CallIds : ProgressRaises(id)
    \/ \E id \in CallIds : ProgressCancelled(id)
    \/ GetSyncingList

SpecSync == Init /\ [][NextSync]_vars

\* The end dates and row counts of incremental_sync called on its own
Today == 0..MaxDate

NextFetch ==
    \E code \in {Fund}, instrument_type \in InstrumentTypes,
       today \in Today, stored \in Today, write \in Writes,
       handler \in Writes :
       IncrementalSync(code, instrument_type, today, stored, write, handler)

SpecFetch == Init /\ [][NextFetch]_vars

InitDatabase ==
    /\ timeseries = [c \in Codes |->
                       IF c = index_code THEN EmptyTable
                       ELSE TableOf(<<400000, 400000, 400000, 480000>>)]
    /\ all_events = <<>>
    /\ detector = DefaultDetector
    /\ scans = 0
    /\ ret = Returned("init_database", "", <<>>, "ok", <<>>)
    /\ previous = <<>>
    /\ surge_events = SavedRows
    /\ instrument = Codes
    /\ sync_state = [c \in Codes |->
                       IF c = index_code THEN NoSyncState
                       ELSE [status |-> "success", last_success_date |-> 4]]
    /\ syncing = {}
    /\ calls = [id \in CallIds |-> IdleCall]

NextDatabase ==
    \/ \E c \in Codes : DeleteInstrument(c)
    \/ \E c \in Codes : UpsertInstrument(c)
    \/ \E d \in Dates, v \in BacktestValues : upsert_timeseries(Fund, d, v)

SpecDatabase == InitDatabase /\ [][NextDatabase]_vars

----------------------------------------------------------------------------
\* Vocabulary of the properties

\* The stored series the last operation ran on
Data == get_timeseries(timeseries, ret.code)

Price(k) == Data[k + 1].value

\* The position of a date in the stored series
IndexOf(date) == CHOOSE k \in 0..(Len(Data) - 1) : Data[k + 1].date = date

\* max(value[a..b])
MaxPrice(a, b) ==
    CHOOSE m \in {Price(k) : k \in a..b} : \A k \in a..b : Price(k) <= m

ReturnedPhases ==
    IF ret.op = "detect_phases" THEN {ret.value[n] : n \in 1..Len(ret.value)}
    ELSE {}

ReturnedEvents ==
    IF ret.op = "scan_fund" /\ ret.status = "ok"
    THEN {ret.value[n] : n \in 1..Len(ret.value)}
    ELSE {}

\* The drawdown of sample k from the highest value of [a, k], in percent,
\* is at most tol
DrawdownWithin(a, k, tol) ==
    (MaxPrice(a, k) - Price(k)) * 100 <= tol * MaxPrice(a, k)

----------------------------------------------------------------------------
\* Properties of UptrendPhaseDetector.detect_phases (SpecPhase)

\* C1: in every phase detect_phases returns, every sample k of
\* [start_idx, end_idx] lies at most max_drawdown_tolerance percent below
\* the highest value of [start_idx, k].
C1_DrawdownInvariant ==
    \A p \in ReturnedPhases :
        \A k \in p.start_idx..p.end_idx :
            DrawdownWithin(p.start_idx, k, ret.self.max_drawdown_tolerance)

\* A returned phase with a pullback inside it
C1_Witness ==
    \E p \in ReturnedPhases :
        \E k \in p.start_idx..p.end_idx : Price(k) < MaxPrice(p.start_idx, k)

C8_NonOverlapping ==
    ret.op = "detect_phases" =>
        \A n \in 1..(Len(ret.value) - 1) :
            ret.value[n + 1].start_idx > ret.value[n].end_idx

\* Two phases returned by one call
C8_Witness == ret.op = "detect_phases" /\ Len(ret.value) >= 2

\* detect_phases ran on a strictly increasing stored series whose gain from
\* the first sample to the last is at least min_gain
RisingEnough ==
    /\ ret.op = "detect_phases"
    /\ Len(Data) >= 1
    /\ \A k \in 1..(Len(Data) - 1) : Price(k) > Price(k - 1)
    /\ 10000 * (Price(Len(Data) - 1) - Price(0)) >= ret.self.min_gain * Price(0)

\* The one phase from the first sample to the last, its total_gain the
\* overall gain to two decimals, its max_drawdown 0
WholeSeriesPhase ==
    /\ Len(ret.value) = 1
    /\ ret.value[1].start_idx = 0
    /\ ret.value[1].end_idx = Len(Data) - 1
    /\ 2 * Abs(ret.value[1].total_gain * Price(0)
                 - 10000 * (Price(Len(Data) - 1) - Price(0))) <= Price(0)
    /\ ret.value[1].max_drawdown = 0

\* C19 as stated, the length read as the number n of samples: a strictly
\* increasing series of n >= min_duration samples that gains at least
\* min_gain yields exactly the phase of the whole series.
C19_AsStated ==
    (RisingEnough /\ Len(Data) >= ret.self.min_duration) => WholeSeriesPhase

\* C19: a strictly increasing series of n samples that gains at least
\* min_gain and has n - 1 >= min_duration steps yields exactly one phase,
\* with start_idx 0, end_idx n - 1, total_gain the overall gain rounded to
\* two decimals and max_drawdown 0.
C19_WholeSeries ==
    (RisingEnough /\ Len(Data) - 1 >= ret.self.min_duration)
        => WholeSeriesPhase

\* A strictly increasing series of exactly min_duration steps, returned as
\* one phase whose total_gain is rounded
C19_Witness ==
    /\ RisingEnough
    /\ Len(Data) - 1 = ret.self.min_duration
    /\ Len(ret.value) = 1
    /\ ret.value[1].total_gain * Price(0)
         # 10000 * (Price(Len(Data) - 1) - Price(0))

\* The samples after s whose drawdown from the highest value since s
\* exceeds tol percent
Breaches(s, tol) ==
    { b \in (s + 1)..(Len(Data) - 1) : ~DrawdownWithin(s, b, tol) }

\* The first of them
FirstBreach(s, tol) ==
    CHOOSE b \in Breaches(s, tol) : \A c \in Breaches(s, tol) : b <= c

\* The index of the running peak of [a, b]: the first sample of the
\* highest value
PeakIndex(a, b) ==
    CHOOSE k \in a..b :
        /\ Price(k) = MaxPrice(a, b)
        /\ \A h \in a..(k - 1) : Price(h) < Price(k)

\* detect_phases ran on the series 100, 110, 104, 120 with tolerance 5,
\* min_gain <= 10 and min_duration <= 1
PullbackExample ==
    /\ ret.op = "detect_phases"
    /\ Len(Data) = 4
    /\ <<Price(0), Price(1), Price(2), Price(3)>> = <<100, 110, 104, 120>>
    /\ ret.self.max_drawdown_tolerance = 5
    /\ ret.self.min_gain <= 1000
    /\ ret.self.min_duration <= 1

\* C20: a returned phase whose forward scan met a sample beyond the
\* tolerance ends at the running peak reached before that sample, and
\* every phase returned after it starts at or after that sample; the
\* series 100, 110, 104, 120 under tolerance 5, min_gain <= 10 and
\* min_duration <= 1 yields exactly the phases [0, 1] and [2, 3].
C20_BreachEndsPhase ==
    /\ ret.op = "detect_phases" =>
          \A n \in 1..Len(ret.value) :
              LET s == ret.value[n].start_idx
                  tol == ret.self.max_drawdown_tolerance
              IN  Breaches(s, tol) # {} =>
                    /\ ret.value[n].end_idx
                         = PeakIndex(s, FirstBreach(s, tol) - 1)
                    /\ \A m \in (n + 1)..Len(ret.value) :
                          ret.value[m].start_idx >= FirstBreach(s, tol)
    /\ PullbackExample =>
          /\ Len(ret.value) = 2
          /\ ret.value[1].start_idx = 0 /\ ret.value[1].end_idx = 1
          /\ ret.value[2].start_idx = 2 /\ ret.value[2].end_idx = 3

\* The example's call, with two phases returned and the first cut short by
\* the pullback
C20_Witness ==
    /\ PullbackExample
    /\ Len(ret.value) = 2
    /\ Breaches(ret.value[1].start_idx, 5) # {}

----------------------------------------------------------------------------
\* Properties of SurgeDetector.scan_fund (Spec)

RECURSIVE WeightedSum(_, _, _)
\* The sum over k in 0..m-1 of (2k - (m-1)) * value[a + k], k counted down
\* from j: the sign of the least-squares slope of value[a..a+m-1]
WeightedSum(a, m, j) ==
    IF j < 0 THEN 0
    ELSE (2 * j - (m - 1)) * Price(a + j) + WeightedSum(a, m, j - 1)

\* The window of w + 1 samples ending at index i meets the surge condition:
\* total_gain >= min_gain, total_gain / (w + 1) >= min_slope, and a rising
\* least-squares line through its second half (from index (w + 1) div 2)
Qualifies(self, w, i) ==
    LET first == Price(i - w)
        gain == Price(i) - first
        mid == (w + 1) \div 2
        m == (w + 1) - mid
    IN  /\ 10000 * gain >= self.min_gain * first
        /\ 10000 * gain >= self.min_slope * (w + 1) * first
        /\ m >= 2
        /\ WeightedSum(i - w + mid, m, m - 1) > 0

WindowsOf(self) == {self.windows[n] : n \in 1..Len(self.windows)}

\* The configured windows that fit the stored series, each with an end index
FittingWindows(self) ==
    {wi \in WindowsOf(self) \X (0..(Len(Data) - 1)) : wi[1] <= wi[2]}

\* The returned events for the samples [i - w, i]
EventsFor(w, i) ==
    {e \in ReturnedEvents :
        e.start_date = Data[i - w + 1].date /\ e.end_date = Data[i + 1].date}

LongEnough(self) == \A w \in WindowsOf(self) : Len(Data) >= w + 1

\* C3 as stated: whenever scan_fund returns, every configured window length
\* w and index i >= w has an event for [i - w, i] exactly if the window
\* meets the surge condition, also in a series shorter than the largest
\* configured window.
C3_AsStated ==
    (ret.op = "scan_fund" /\ ret.status = "ok") =>
        \A wi \in FittingWindows(ret.self) :
            (EventsFor(wi[1], wi[2]) # {}) <=> Qualifies(ret.self, wi[1], wi[2])

\* C3, amended: in a series of at least max(windows) + 1 samples, every
\* configured window length w and index i >= w has an event for
\* [i - w, i] exactly if the window meets the surge condition; a shorter
\* series yields no event at all.
C3_SurgeIff ==
    (ret.op = "scan_fund" /\ ret.status = "ok") =>
        IF LongEnough(ret.self)
        THEN \A wi \in FittingWindows(ret.self) :
                (EventsFor(wi[1], wi[2]) # {})
                    <=> Qualifies(ret.self, wi[1], wi[2])
        ELSE ReturnedEvents = {}

\* One call that reports one window and leaves out another that has the
\* gain and the average slope but no rising second half
C3_Witness ==
    /\ ret.op = "scan_fund" /\ ret.status = "ok"
    /\ \E wi \in FittingWindows(ret.self) : EventsFor(wi[1], wi[2]) # {}
    /\ \E wi \in FittingWindows(ret.self) :
          /\ wi[1] >= 2
          /\ EventsFor(wi[1], wi[2]) = {}
          /\ 10000 * (Price(wi[2]) - Price(wi[2] - wi[1]))
                >= ret.self.min_gain * Price(wi[2] - wi[1])
          /\ 10000 * (Price(wi[2]) - Price(wi[2] - wi[1]))
                >= ret.self.min_slope * (wi[1] + 1) * Price(wi[2] - wi[1])

\* The window an event reports: its samples' indices
StartIdx(e) == IndexOf(e.start_date)

EndIdx(e) == IndexOf(e.end_date)

C9_WindowExactness ==
    \A e \in ReturnedEvents : EndIdx(e) - StartIdx(e) = e.window

\* An event over a stretch of the series with a missing day, under a
\* configuration of two different window lengths
C9_Witness ==
    \E e \in ReturnedEvents :
        /\ e.end_date - e.start_date # e.window
        /\ Cardinality(WindowsOf(ret.self)) = 2

\* No two returned events share (start_date, end_date)
UniqueRanges ==
    ret.op = "scan_fund" =>
        \A m, n \in 1..Len(ret.value) :
            (/\ ret.value[m].start_date = ret.value[n].start_date
             /\ ret.value[m].end_date = ret.value[n].end_date) => m = n

\* The number of returned events for the samples [i - w, i]
CountFor(w, i) ==
    Cardinality({n \in 1..Len(ret.value) :
        /\ ret.value[n].start_date = Data[i - w + 1].date
        /\ ret.value[n].end_date = Data[i + 1].date})

\* C10 as stated: no two returned events share (start_date, end_date),
\* for any list of window lengths, and the date range of a window that
\* meets the surge condition has exactly one event.
C10_AsStated ==
    (ret.op = "scan_fund" /\ ret.status = "ok") =>
        /\ UniqueRanges
        /\ \A wi \in FittingWindows(ret.self) :
              Qualifies(ret.self, wi[1], wi[2]) => CountFor(wi[1], wi[2]) = 1

\* C10, amended: no two returned events share (start_date, end_date), for
\* any list of window lengths; in a series of at least max(windows) + 1
\* samples the date range of a window that meets the surge condition has
\* exactly one event.
C10_Deduplicated ==
    (ret.op = "scan_fund" /\ ret.status = "ok") =>
        /\ UniqueRanges
        /\ LongEnough(ret.self) =>
              \A wi \in FittingWindows(ret.self) :
                  Qualifies(ret.self, wi[1], wi[2])
                      => CountFor(wi[1], wi[2]) = 1

\* An event returned under a list that repeats its window length
C10_Witness ==
    /\ ReturnedEvents # {}
    /\ Len(ret.self.windows) > Cardinality(WindowsOf(ret.self))

----------------------------------------------------------------------------
\* Properties of both detectors (Spec)

\* The distance, in units of 1/(100 * value[start]) percent, between a
\* reported total_gain (hundredths of a percent) and
\* (value[end] - value[start]) / value[start] * 100
GainError(r) ==
    LET first == Price(IndexOf(r.start_date))
        last == Price(IndexOf(r.end_date))
    IN  Abs(r.total_gain * first - 10000 * (last - first))

\* C6 as stated: every returned phase's and event's total_gain equals
\* (value[end] - value[start]) / value[start] * 100 to within 1e-6.
C6_AsStated ==
    \A r \in ReturnedPhases \cup ReturnedEvents :
        GainError(r) <= Price(IndexOf(r.start_date)) \div 10000

\* C6, amended: every returned phase's and event's total_gain equals
\* (value[end] - value[start]) / value[start] * 100 rounded to two
\* decimals, so to within 0.005.
C6_GainRounded ==
    \A r \in ReturnedPhases \cup ReturnedEvents :
        2 * GainError(r) <= Price(IndexOf(r.start_date))

\* A returned event whose gain is not a whole number of hundredths
C6_Witness == \E r \in ReturnedEvents : GainError(r) > 0

\* The largest configured window length
LargestWindow(self) ==
    CHOOSE w \in WindowsOf(self) : \A v \in WindowsOf(self) : v <= w

\* C7: detect_phases returns an empty list, without raising, for an empty
\* series or one of fewer than min_duration samples; scan_fund returns an
\* empty list, without raising, for an empty series or one of fewer than
\* max(windows) + 1 samples.
C7_DegenerateInputs ==
    /\ (/\ ret.op = "detect_phases"
        /\ (Len(Data) = 0 \/ Len(Data) < ret.self.min_duration))
          => (ret.status = "ok" /\ ret.value = <<>>)
    /\ (/\ ret.op = "scan_fund"
        /\ (Len(Data) = 0 \/ Len(Data) < LargestWindow(ret.self) + 1))
          => (ret.status = "ok" /\ ret.value = <<>>)

\* scan_fund called on a series too short for its largest window that
\* holds a window of a smaller configured length meeting the surge
\* condition
C7_Witness ==
    /\ ret.op = "scan_fund"
    /\ Len(Data) > 0
    /\ Len(Data) < LargestWindow(ret.self) + 1
    /\ \E wi \in FittingWindows(ret.self) : Qualifies(ret.self, wi[1], wi[2])

----------------------------------------------------------------------------
\* Properties of SurgeBacktester (SpecBacktest)

\* C2: after any sequence of scan_all_funds calls on one backtester,
\* all_events holds exactly the events the most recent run found.
C2_AsStated ==
    (ret.op = "scan_all_funds" /\ ret.status = "ok") =>
        all_events = scan_all_funds(detector, <<>>, timeseries).all_events

\* The rows of the events of all_events
ResultRows == { SurgeRow(all_events[n]) : n \in 1..Len(all_events) }

\* C17: after save_to_database the surge_events table holds exactly the
\* events of all_events and no row of an earlier save.
C17_AsStated == (ret.op = "save_to_database") => surge_events = ResultRows

\* The report generate_report returned for a backtester that holds events
Reported == ret.op = "generate_report" /\ all_events # <<>>

\* The positions of all_events whose events the report lists
Listed == { ret.value.positions[i] : i \in 1..Len(ret.value.positions) }

\* The position of a code in the instrument iteration order
InstrumentPos(code) ==
    CHOOSE k \in 1..Len(list_instruments) : list_instruments[k] = code

----------------------------------------------------------------------------
\* Order and determinism of the detectors (Spec)

\* The position at which a window length is first configured
WindowPos(self, w) ==
    CHOOSE n \in 1..Len(self.windows) :
        self.windows[n] = w /\ \A k \in 1..(n - 1) : self.windows[k] # w

\* C11: the list scan_fund returns is in non-decreasing end_date order
\* across all window lengths, and events of equal end_date keep the order
\* in which their window lengths are configured.
C11_OrderedByEndDate ==
    ret.op = "scan_fund" =>
        \A m, n \in 1..Len(ret.value) :
            m < n =>
                /\ ret.value[m].end_date <= ret.value[n].end_date
                /\ ret.value[m].end_date = ret.value[n].end_date =>
                      WindowPos(ret.self, ret.value[m].window)
                          < WindowPos(ret.self, ret.value[n].window)

\* Two returned events of equal end_date, the longer window configured and
\* returned first
C11_Witness ==
    /\ ret.op = "scan_fund"
    /\ \E m, n \in 1..Len(ret.value) :
          /\ m < n
          /\ ret.value[m].end_date = ret.value[n].end_date
          /\ ret.value[m].window > ret.value[n].window

----------------------------------------------------------------------------
\* Properties of IndicatorService.calculate_indicators (SpecIndicator)

\* The period length of the last call
Days == ret.self.days

\* The stored benchmark series
IndexData == get_timeseries(timeseries, index_code)

\* The call returned a result
IndicatorReturned == ret.op = "calculate_indicators" /\ ret.status = "ok"

\* The sentinel result
IsSentinel(r) ==
    /\ r.momentum = 0 /\ r.relative_strength = 0 /\ r.index_return = 0
    /\ r.volatility.k = "num" /\ r.volatility.n = 0
    /\ r.score = 0 /\ r.vol_ratio = 100
    /\ r.analysis = <<"insufficient data">>
    /\ r.warning_level = "NONE"

\* C13 as stated: calculate_indicators returns the sentinel result exactly
\* when the target series has fewer than days + 1 samples, and every other
\* call returns a warning_level of LOW, MEDIUM or HIGH without raising.
C13_AsStated ==
    ret.op = "calculate_indicators" =>
        /\ ret.status = "ok"
        /\ IsSentinel(ret.value) <=> Len(Data) < Days + 1
        /\ Len(Data) >= Days + 1 =>
              ret.value.warning_level \in {"LOW", "MEDIUM", "HIGH"}

\* C13, amended: for days >= 0 calculate_indicators returns the sentinel
\* result exactly when the target series has fewer than days + 1 samples,
\* and every other call returns a warning_level of LOW, MEDIUM or HIGH
\* without raising; for days = -1 it returns the sentinel for an empty
\* series and raises for a non-empty one.
C13_SentinelExactly ==
    ret.op = "calculate_indicators" =>
        IF Days >= 0
        THEN /\ ret.status = "ok"
             /\ IsSentinel(ret.value) <=> Len(Data) < Days + 1
             /\ Len(Data) >= Days + 1 =>
                   ret.value.warning_level \in {"LOW", "MEDIUM", "HIGH"}
        ELSE IF Len(Data) = 0
             THEN ret.status = "ok" /\ IsSentinel(ret.value)
             ELSE ret.status = "raised"

\* A call with days = 2 on a series of exactly days + 1 samples, which
\* returns a scored result
C13_Witness ==
    /\ IndicatorReturned
    /\ Days = 2
    /\ Len(Data) = Days + 1
    /\ ~IsSentinel(ret.value)

\* A non-sentinel result was returned
Scored == IndicatorReturned /\ ret.value.warning_level # "NONE"

\* The scoring table's relative-strength rows for n/d percent (d > 0)
RsRow(n, d) ==
    IF n > 5 * d THEN [points |-> 2, labels |-> <<"strongly outperforming">>]
    ELSE IF n > 0 THEN [points |-> 1, labels |-> <<"slightly outperforming">>]
    ELSE [points |-> 0, labels |-> <<"underperforming">>]

\* The scoring table's momentum rows for n/d percent
MomentumRow(n, d) ==
    IF n > 10 * d THEN [points |-> 2, labels |-> <<"strong upward momentum">>]
    ELSE IF n > 0 THEN [points |-> 1, labels |-> <<"trending up">>]
    ELSE IF n < -5 * d THEN [points |-> 0, labels |-> <<"downtrend">>]
    ELSE [points |-> 0, labels |-> <<>>]

\* The scoring table's volatility rows for the ratio n/d
VolRow(n, d) ==
    IF 10 * n < 6 * d THEN [points |-> 2, labels |-> <<"volatility compressed">>]
    ELSE IF 10 * n < 8 * d
    THEN [points |-> 1, labels |-> <<"volatility narrowing">>]
    ELSE [points |-> 0, labels |-> <<>>]

\* The result carries the points and labels of the three rows
ScoredBy(rs, mo, vo) ==
    /\ ret.value.score = rs.points + mo.points + vo.points
    /\ ret.value.analysis = rs.labels \o mo.labels \o vo.labels
    /\ ret.value.score \in 0..6

\* First and last price of the target's trailing days + 1 samples
WindowFirst == Data[Len(Data) - Days].value

WindowLast == Data[Len(Data)].value

\* The benchmark has days + 1 samples
IndexEnough == Len(IndexData) # 0 /\ Len(IndexData) >= Days + 1

\* First and last price of the benchmark's trailing days + 1 samples; equal
\* (a return of 0) when it has too few
IndexFirst == IF IndexEnough THEN IndexData[Len(IndexData) - Days].value ELSE 1

IndexLast == IF IndexEnough THEN IndexData[Len(IndexData)].value ELSE 1

\* |r1 - r2| * v0 * v1 for the returns r1, r2 of the three samples from
\* position k of the target series
Spread(k) == Abs(Data[k + 1].value * Data[k + 1].value
                   - Data[k].value * Data[k + 2].value)

Base(k) == Data[k].value * Data[k + 1].value

\* The preceding window of three samples exists and its returns differ
HasPriorVolatility ==
    /\ Days = 2
    /\ Len(Data) >= 6
    /\ Spread(Len(Data) - 5) > 0

\* The unrounded volatility ratio as a fraction
ExactVolRatio ==
    IF HasPriorVolatility
    THEN [n |-> Spread(Len(Data) - 2) * Base(Len(Data) - 5),
          d |-> Spread(Len(Data) - 5) * Base(Len(Data) - 2)]
    ELSE [n |-> 1, d |-> 1]

\* The unrounded relative strength, in percent, as a fraction
ExactRs ==
    [n |-> 100 * ((WindowLast - WindowFirst) * IndexFirst
                    - (IndexLast - IndexFirst) * WindowFirst),
     d |-> WindowFirst * IndexFirst]

\* C14 as stated: in every non-sentinel result, score is the sum of the
\* points the scoring table assigns to the result's relative_strength,
\* momentum and vol_ratio fields, within 0..6, and analysis holds exactly
\* the labels of those rows in the order relative strength, momentum,
\* volatility.
C14_AsStated ==
    Scored =>
        ScoredBy(RsRow(ret.value.relative_strength, 100),
                 MomentumRow(ret.value.momentum, 100),
                 VolRow(ret.value.vol_ratio, 100))

\* C14, amended: in every non-sentinel result, score is the sum of the
\* points the scoring table assigns to the unrounded relative strength,
\* momentum and volatility ratio, within 0..6, and analysis holds exactly
\* the labels of those rows in the order relative strength, momentum,
\* volatility; the result's fields are these values rounded to two
\* decimals.
C14_ScoreFromTable ==
    Scored =>
        /\ ScoredBy(RsRow(ExactRs.n, ExactRs.d),
                    MomentumRow(100 * (WindowLast - WindowFirst), WindowFirst),
                    VolRow(ExactVolRatio.n, ExactVolRatio.d))
        /\ ret.value.relative_strength = Round(ExactRs.n, ExactRs.d, 2)
        /\ ret.value.momentum
              = Round(100 * (WindowLast - WindowFirst), WindowFirst, 2)
        /\ ret.value.vol_ratio = Round(ExactVolRatio.n, ExactVolRatio.d, 2)

\* A result with a label of each group, the volatility one for a ratio
\* between 0.6 and 0.8
C14_Witness ==
    /\ Scored
    /\ Len(ret.value.analysis) = 3
    /\ ret.value.analysis[3] = "volatility narrowing"
    /\ ret.value.score >= 3

\* C15: in every non-sentinel result, warning_level is HIGH iff
\* score >= 4, MEDIUM iff 2 <= score <= 3, and LOW iff score <= 1.
C15_WarningLevel ==
    Scored =>
        /\ ret.value.warning_level = "HIGH" <=> ret.value.score >= 4
        /\ ret.value.warning_level = "MEDIUM" <=> ret.value.score \in 2..3
        /\ ret.value.warning_level = "LOW" <=> ret.value.score <= 1

\* A result whose score is exactly 4
C15_Witness == Scored /\ ret.value.score = 4

\* The target's window ends where it began (momentum = 0) and the
\* benchmark has enough history and rose over the same trailing length
FlatAgainstRising ==
    /\ Scored
    /\ WindowLast = WindowFirst
    /\ IndexEnough
    /\ IndexLast > IndexFirst

\* C16 as stated: for a flat target window and a benchmark that rose,
\* the result has relative_strength < 0, a warning_level of LOW or MEDIUM
\* and the 'underperforming' label, whatever the volatility ratio.
C16_AsStated ==
    FlatAgainstRising =>
        /\ ret.value.relative_strength < 0
        /\ ret.value.warning_level \in {"LOW", "MEDIUM"}
        /\ \E n \in 1..Len(ret.value.analysis) :
              ret.value.analysis[n] = "underperforming"

\* C16, amended: for a flat target window and a benchmark that rose, the
\* result has relative_strength <= 0 (the negative of the benchmark's
\* return rounded to two decimals, which is 0 for a rise below 0.005%), a
\* warning_level of LOW or MEDIUM and the 'underperforming' label,
\* whatever the volatility ratio.
C16_FlatUnderperforms ==
    FlatAgainstRising =>
        /\ ret.value.relative_strength <= 0
        /\ ret.value.relative_strength
              = Round(-100 * (IndexLast - IndexFirst), IndexFirst, 2)
        /\ ret.value.warning_level \in {"LOW", "MEDIUM"}
        /\ \E n \in 1..Len(ret.value.analysis) :
              ret.value.analysis[n] = "underperforming"

\* A flat target window against a benchmark that rose, with a compressed
\* volatility that lifts the warning level to MEDIUM
C16_Witness ==
    /\ FlatAgainstRising
    /\ ret.value.relative_strength < 0
    /\ ret.value.warning_level = "MEDIUM"

----------------------------------------------------------------------------
\* The slope analyzers of the two detectors (Spec)

\* The prices of the samples [i - w, i] of the stored series
WindowPrices(w, i) == SubSeq(PricesOf(Data), i - w + 1, i + 1)

\* scan_fund went through the windows of the stored series
Scanned ==
    /\ ret.op = "scan_fund"
    /\ Len(Data) > 0
    /\ Len(Data) >= LargestWindow(ret.self) + 1

\* C21: on every window scan_fund analyses, the analyzer of the surge
\* detector returns what the analyzer of the phase detector returns, and
\* for a window of fewer than 4 prices that is (0, 0, 1.0), without raising.
C21_AsStated ==
    Scanned =>
        \A wi \in FittingWindows(ret.self) :
            LET prices == WindowPrices(wi[1], wi[2])
            IN  /\ calculate_segment_slopes(prices)
                     = _calculate_segment_slopes(prices)
                /\ Len(prices) < 4 =>
                     calculate_segment_slopes(prices)
                         = Slopes("ok", Rat(0, 1), Rat(0, 1), Rat(1, 1))

\* The returned phases of 4 or more samples, which the analyzer splits
SplitPhases == { p \in ReturnedPhases : p.end_idx - p.start_idx + 1 >= 4 }

\* The index at which the analyzer splits the phase p: mid = n // 2
MidOf(p) == p.start_idx + (p.end_idx - p.start_idx + 1) \div 2

\* slope_second of the phase p is, to three decimals, the least-squares
\* slope of (value[k] - value[mid]) / base * 100 over the second half:
\* 6 * sum (2k - (m-1)) value[mid + k] * 100 / (m (m^2 - 1) base), in
\* thousandths
SecondSlopeOver(p, base) ==
    LET m == p.end_idx - MidOf(p) + 1
    IN  /\ p.slope_second.k = "num"
        /\ 2 * Abs(p.slope_second.v * (m * (m * m - 1) * base)
                     - 600000 * WeightedSum(MidOf(p), m, m - 1))
              <= m * (m * m - 1) * base

\* C22 as stated: the second-half values are gains relative to the second
\* half's own first price, (price[k] / price[mid] - 1) * 100.
C22_AsStated == \A p \in SplitPhases : SecondSlopeOver(p, Price(MidOf(p)))

\* C22: the second-half values fed to the regression are
\* (price[k] - price[mid]) / price[0] * 100: the gains against the overall
\* first price, shifted to start at 0.
C22_SecondHalfOverFirstPrice ==
    \A p \in SplitPhases : SecondSlopeOver(p, Price(p.start_idx))

\* A returned phase of 4 or more samples whose second half starts at
\* another price than the phase and rises
C22_Witness ==
    \E p \in SplitPhases :
        /\ Price(MidOf(p)) # Price(p.start_idx)
        /\ p.slope_second.v > 0

----------------------------------------------------------------------------
\* Properties of the stored series (Spec)

\* The value get_timeseries returns for the date d of a series, or Absent
RowValue(rows, d) ==
    IF \E k \in 1..Len(rows) : rows[k].date = d
    THEN (CHOOSE r \in {rows[k] : k \in 1..Len(rows)} : r.date = d).value
    ELSE Absent

\* get_timeseries(code) is strictly increasing by date
StrictlyByDate(db, code) ==
    LET rows == get_timeseries(db, code)
    IN  \A k \in 1..(Len(rows) - 1) : rows[k].date < rows[k + 1].date

\* C23: get_timeseries(code) is always strictly increasing by date, so with
\* at most one sample per date, and an upsert_timeseries(code, date, value)
\* leaves that date carrying that value and every other date of every
\* code carrying what it carried before.
C23_LastUpsertWins ==
    /\ [](\A c \in Codes : StrictlyByDate(timeseries, c))
    /\ [][ret'.op = "upsert_timeseries" =>
            \A c \in Codes : \A d \in TableDates :
                RowValue(get_timeseries(timeseries', c), d)
                  = IF c = ret'.code /\ d = ret'.self.date
                    THEN ret'.self.value
                    ELSE RowValue(get_timeseries(timeseries, c), d)]_vars

\* An upsert for a date between two stored dates of the series
C23_Witness ==
    /\ ret.op = "upsert_timeseries"
    /\ \E k \in 2..(Len(Data) - 1) :
          /\ Data[k].date = ret.self.date
          /\ Data[k].value = ret.self.value
          /\ Data[k].value # Data[k + 1].value

----------------------------------------------------------------------------
\* Properties of the instrument table (SpecDatabase)

\* C24: after delete_instrument(code) has deleted the instrument, no
\* timeseries_daily, sync_state or surge_events row of that code exists.
C24_AsStated ==
    (ret.op = "delete_instrument" /\ ret.status = "ok" /\ ret.value = 1) =>
        /\ get_timeseries(timeseries, ret.code) = <<>>
        /\ get_sync_state(sync_state, ret.code) = NoSyncState
        /\ \A r \in surge_events : r.code # ret.code

----------------------------------------------------------------------------
\* The boundary of the tolerance (SpecBoundary)

\* The samples after s whose drawdown from the highest value since s is
\* exactly tol percent
AtTolerance(s, tol) ==
    { b \in (s + 1)..(Len(Data) - 1) :
        (MaxPrice(s, b) - Price(b)) * 100 = tol * MaxPrice(s, b) }

\* The last sample before the first of the samples `stops` after s, or the
\* last sample of the series
LastBefore(stops) ==
    IF stops = {} THEN Len(Data) - 1
    ELSE (CHOOSE b \in stops : \A c \in stops : b <= c) - 1

\* Every returned phase ends at the running peak reached before the first
\* of the samples stops(s) after its start s
EndsBefore(stops(_)) ==
    ret.op = "detect_phases" =>
        \A n \in 1..Len(ret.value) :
            ret.value[n].end_idx
                = PeakIndex(ret.value[n].start_idx,
                            LastBefore(stops(ret.value[n].start_idx)))

\* The samples beyond the tolerance
Beyond(s) == Breaches(s, ret.self.max_drawdown_tolerance)

\* The samples whose computed drawdown is greater than the tolerance
ComputedBeyond(s) ==
    Beyond(s) \cup
        (IF RoundsAbove(ret.self.max_drawdown_tolerance)
         THEN AtTolerance(s, ret.self.max_drawdown_tolerance) ELSE {})

----------------------------------------------------------------------------
\* The outer cursor of detect_phases (SpecPhase)

\* The iterations of the outer loop of the last detect_phases call
Iterations == CursorTrace(ret.self, PricesOf(Data), 0)

\* detect_phases went into its loop
Looped ==
    /\ ret.op = "detect_phases"
    /\ Len(Data) > 0
    /\ Len(Data) >= ret.self.min_duration

\* C26: in detect_phases the outer cursor strictly increases on every
\* iteration, by 1 on a non-ascent position and to max(j, phase_end + 1)
\* after a candidate; the loop ends after at most len(prices) - 1
\* iterations with the cursor at or past the last sample; and no index up
\* to the end of an examined candidate is an iteration's cursor, or a
\* returned phase's start, again.
C26_CursorAdvances ==
    Looped =>
        LET it == Iterations
        IN  /\ Len(it) <= Len(Data) - 1 \/ Len(Data) = 1
            /\ Len(it) > 0 =>
                  /\ it[1].i = 0
                  /\ it[Len(it)].next >= Len(Data) - 1
            /\ \A k \in 1..Len(it) :
                  /\ it[k].next > it[k].i
                  /\ ~it[k].ascent => it[k].next = it[k].i + 1
                  /\ it[k].ascent =>
                        /\ it[k].next >= it[k].j
                        /\ it[k].next >= it[k].phase_end + 1
                        /\ it[k].next \in {it[k].j, it[k].phase_end + 1}
                  /\ k < Len(it) => it[k + 1].i = it[k].next
                  /\ \A l \in (k + 1)..Len(it) : it[l].i > it[k].phase_end
            /\ \A n \in 1..Len(ret.value) :
                  \E k \in 1..Len(it) :
                      /\ it[k].ascent
                      /\ it[k].i = ret.value[n].start_idx
                      /\ it[k].phase_end = ret.value[n].end_idx

\* A call whose loop examines two candidates, the second starting where
\* the forward scan of the first stopped
C26_Witness ==
    /\ Looped
    /\ \E k \in 1..(Len(Iterations) - 1) :
          /\ Iterations[k].ascent
          /\ Iterations[k + 1].ascent
          /\ Iterations[k + 1].i = Iterations[k].j
          /\ Iterations[k].j > Iterations[k].phase_end

----------------------------------------------------------------------------
\* The validation pass and the single-pass detector (SpecPhase)

\* The candidates of the last detect_phases call: iterations whose forward
\* scan ended at a peak after the start
Candidates ==
    { k \in 1..Len(Iterations) :
        Iterations[k].ascent /\ Iterations[k].phase_end > Iterations[k].i }

\* Start date, end date, duration and gain of the returned phases
PhaseSpans ==
    [n \in 1..Len(ret.value) |->
        [start_date |-> ret.value[n].start_date,
         end_date |-> ret.value[n].end_date,
         duration |-> ret.value[n].duration_days,
         total_gain |-> ret.value[n].total_gain]]

\* C27: for every candidate of the forward scan of detect_phases the
\* validation pass _find_valid_phase_end returns the candidate's last index
\* (actual_end = phase_end), and detect_phases returns phases with the same
\* starts, ends, durations and gains, in the same order, as detect_uptrend
\* of the scan scripts on the same series with the same thresholds.
C27_SamePhases ==
    Looped =>
        /\ \A k \in Candidates :
              LET c == Iterations[k]
              IN  _find_valid_phase_end(ret.self,
                      Slice(PricesOf(Data), c.i, c.phase_end + 1))
                  = c.phase_end - c.i
        /\ PhaseSpans = detect_uptrend(PricesOf(Data), DatesOf(Data),
                             ret.self.max_drawdown_tolerance,
                             ret.self.min_gain, ret.self.min_duration)
        /\ \A n \in 1..Len(ret.value) :
              /\ At(DatesOf(Data), ret.value[n].start_idx)
                    = ret.value[n].start_date
              /\ At(DatesOf(Data), ret.value[n].end_idx)
                    = ret.value[n].end_date

\* A call that returns a phase with a dip inside it
C27_Witness ==
    /\ Looped
    /\ \E n \in 1..Len(ret.value) :
          \E a \in ret.value[n].start_idx..ret.value[n].end_idx :
              \E b \in a..ret.value[n].end_idx :
                  At(PricesOf(Data), b) < At(PricesOf(Data), a)

----------------------------------------------------------------------------
\* Concurrent sync_single calls (SpecSync)

\* The calls between adding their code to `syncing` and discarding it
Active == { id \in CallIds : calls[id].pc # "idle" }

\* The step is the start of a sync_single call for a code that is in
\* `syncing`
StartsWhileSyncing ==
    /\ ret'.op = "sync_single"
    /\ calls[ret'.self.call].pc = "idle"
    /\ ret'.code \in syncing

\* C28: under any interleaving of sync_single calls at most one call per
\* code is between adding the code to `syncing` and discarding it; a call
\* that finds its code in `syncing` returns success False with "Already
\* syncing", does not invoke the fetcher, and leaves `syncing` (and the
\* tables and the other calls) unchanged.
C28_OneCallPerCode ==
    /\ [](\A a, b \in Active : a # b => calls[a].code # calls[b].code)
    /\ [][StartsWhileSyncing =>
            /\ ret'.status = "ok"
            /\ ret'.value = SyncResult(ret'.code, FALSE, "Already syncing")
            /\ ret'.self.invoked = <<>>
            /\ UNCHANGED <<syncing, calls, timeseries, sync_state>>]_vars

\* A call was turned away while another call for its code is at its await
C28_Witness ==
    /\ ret.op = "sync_single"
    /\ ret.value = SyncResult(ret.code, FALSE, "Already syncing")
    /\ \E id \in Active : calls[id].code = ret.code /\ id # ret.self.call

\* C29: every sync_single call that added its code to `syncing` removes it
\* when it finishes, by returning, by the fetch raising, or by on_progress
\* raising: `syncing` is at every moment exactly the codes of the calls
\* that have started and not finished, a call that finishes takes its code
\* out, and once all started calls have finished `syncing` (what
\* GET /api/sync/syncing lists) is empty.
C29_FinishedCallsLeaveNothing ==
    /\ [](syncing = { calls[id].code : id \in Active })
    /\ [](Active = {} => syncing = {})
    /\ [](ret.op = "get_syncing_list" /\ Active = {} => ret.value = {})
    /\ [][\A id \in CallIds :
            calls[id].pc # "idle" /\ calls'[id].pc = "idle"
                => calls[id].code \notin syncing']_vars

\* A call whose on_progress raised in the except clause has finished and
\* no call is running
C29_Witness ==
    /\ ret.op = "sync_single"
    /\ ret.status = "raised"
    /\ Active = {}
    /\ syncing = {}

----------------------------------------------------------------------------
\* A failed incremental sync (SpecFetch)

\* The last call was an incremental_sync that failed: it returned
\* success False or raised
SyncFailed ==
    /\ ret.op = "incremental_sync"
    /\ ret.status = "raised" \/ ~ret.value.success

\* C30: a failed DataFetcher.incremental_sync leaves the code's stored
\* last_success_date as it was before the call, so the next incremental
\* sync starts the day after the last successfully synced date.
C30_AsStated ==
    SyncFailed =>
        /\ get_sync_state(sync_state, ret.code).last_success_date
              = previous[1].sync_state.last_success_date
        /\ SyncStartDate(sync_state, ret.code) = ret.self.start_date

====
